---- MODULE Spec2Model ----
(***************************************************************************)
(* ARM (A32) next-address decoder of the rpi_stub debug agent:             *)
(* ARM_decode_table.c.  The decoder is a function from an instruction      *)
(* word, its sub-type tag and the register snapshot rpi2_reg_context to    *)
(* an outcome (address, state, unpredictable).                             *)
(*                                                                         *)
(* A C "unsigned int" is 32 bits wide.  A word is kept as its two 16-bit   *)
(* halves, [hi, lo], so that every intermediate value of the arithmetic    *)
(* below stays inside the model checker's integer range while the 32-bit   *)
(* wrap-around of the C arithmetic is kept exactly.                        *)
(***************************************************************************)
EXTENDS Integers, Sequences, FiniteSets, TLC

(***************************************************************************)
(* 32-bit words                                                            *)
(***************************************************************************)
\* 2^16: a word is two halves of 16 bits
Half == 256 * 256

W(h, l) == [hi |-> h, lo |-> l]

\* a small natural number as a word
WordOf(n) == W(n \div Half, n % Half)

RECURSIVE Pow2(_)
Pow2(n) ==
    CASE n = 0 -> 1 [] n = 1 -> 2 [] n = 2 -> 4 [] n = 3 -> 8
      [] n = 4 -> 16 [] n = 5 -> 32 [] n = 6 -> 64 [] n = 7 -> 128
      [] n = 8 -> 256 [] n = 9 -> 512 [] n = 10 -> 1024 [] n = 11 -> 2048
      [] n = 12 -> 4096 [] n = 13 -> 8192 [] n = 14 -> 16384
      [] n = 15 -> 32768 [] n = 16 -> 65536
      [] OTHER -> 65536 * Pow2(n - 16)

\* bitwise operations on the n low bits of two naturals
RECURSIVE AndN(_, _, _)
AndN(a, b, n) ==
    IF n = 0 THEN 0
    ELSE ((a % 2) * (b % 2)) + 2 * AndN(a \div 2, b \div 2, n - 1)

RECURSIVE OrN(_, _, _)
OrN(a, b, n) ==
    IF n = 0 THEN 0
    ELSE (IF (a % 2) + (b % 2) > 0 THEN 1 ELSE 0)
           + 2 * OrN(a \div 2, b \div 2, n - 1)

RECURSIVE XorN(_, _, _)
XorN(a, b, n) ==
    IF n = 0 THEN 0
    ELSE (((a % 2) + (b % 2)) % 2) + 2 * XorN(a \div 2, b \div 2, n - 1)

\* the same on 4-bit digits, tabulated, and on 16-bit halves digit by digit
NibAnd == [a \in 0..15 |-> [b \in 0..15 |-> AndN(a, b, 4)]]
NibOr  == [a \in 0..15 |-> [b \in 0..15 |-> OrN(a, b, 4)]]
NibXor == [a \in 0..15 |-> [b \in 0..15 |-> XorN(a, b, 4)]]

Op16(t, a, b) ==
    t[a % 16][b % 16]
      + 16 * t[(a \div 16) % 16][(b \div 16) % 16]
      + 256 * t[(a \div 256) % 16][(b \div 256) % 16]
      + 4096 * t[(a \div 4096) % 16][(b \div 4096) % 16]

AndW(a, b) == W(Op16(NibAnd, a.hi, b.hi), Op16(NibAnd, a.lo, b.lo))
OrW(a, b)  == W(Op16(NibOr, a.hi, b.hi), Op16(NibOr, a.lo, b.lo))
XorW(a, b) == W(Op16(NibXor, a.hi, b.hi), Op16(NibXor, a.lo, b.lo))
NotW(a)    == W(Half - 1 - a.hi, Half - 1 - a.lo)

\* a + b, a - b modulo 2^32
AddW(a, b) ==
    W((a.hi + b.hi + ((a.lo + b.lo) \div Half)) % Half,
      (a.lo + b.lo) % Half)

SubW(a, b) == AddW(AddW(a, NotW(b)), W(0, 1))

\* a << n and a >> n (logical) for 0 <= n <= 31
ShlW(a, n) ==
    IF n = 0 THEN a
    ELSE IF n < 16
         THEN W(((a.hi * Pow2(n)) + (a.lo \div Pow2(16 - n))) % Half,
                (a.lo * Pow2(n)) % Half)
         ELSE W((a.lo * Pow2(n - 16)) % Half, 0)

ShrW(a, n) ==
    IF n = 0 THEN a
    ELSE IF n < 16
         THEN W(a.hi \div Pow2(n),
                ((a.hi % Pow2(n)) * Pow2(16 - n)) + (a.lo \div Pow2(n)))
         ELSE W(0, a.hi \div Pow2(n - 16))

\* (int)a >> n: arithmetic shift right, 0 <= n <= 31
AsrW(a, n) ==
    IF a.hi < 32768 THEN ShrW(a, n)
    ELSE NotW(ShrW(NotW(a), n))

IsZeroW(a) == a.hi = 0 /\ a.lo = 0

(***************************************************************************)
(* Bit-field utilities (instr_util.h)                                      *)
(***************************************************************************)
\* bit(value, n): bit n of a word, 0 or 1
bit(w, n) ==
    IF n < 16 THEN (w.lo \div Pow2(n)) % 2
    ELSE (w.hi \div Pow2(n - 16)) % 2

\* bitrng(value, hi, lo): the inclusive bit range hi..lo as a number
\* (used for fields of at most 24 bits)
LowBits(s, n) ==
    IF n <= 16 THEN s.lo % Pow2(n)
    ELSE ((s.hi % Pow2(n - 16)) * Half) + s.lo

bitrng(w, h, l) == LowBits(ShrW(w, l), h - l + 1)

\* bitrng as a word, for full-width fields
LowBitsW(s, n) ==
    IF n <= 16 THEN W(0, s.lo % Pow2(n))
    ELSE W(s.hi % Pow2(n - 16), s.lo)

bitrngW(w, h, l) == LowBitsW(ShrW(w, l), h - l + 1)

\* sx32(value, hi, lo): the bit range hi..lo sign-extended to 32 bits
SignExtend(f, n) ==
    IF bit(f, n - 1) = 1
    THEN OrW(f, ShlW(W(Half - 1, Half - 1), n))
    ELSE f

sx32(w, h, l) == SignExtend(bitrngW(w, h, l), h - l + 1)

(***************************************************************************)
(* Outcome values and result builders                                      *)
(***************************************************************************)
\* address 0xffffffff of the linear-fallthrough sentinel
LIN_ADDR == W(Half - 1, Half - 1)

\* set next address for linear execution: state ARM, address 0xffffffff
set_addr_lin == [address |-> LIN_ADDR, state |-> "ARM", unpred |-> FALSE]

\* architecturally UNDEFINED: the address is meaningless
set_undef_addr == [address |-> W(0, 0), state |-> "UNDEF", unpred |-> FALSE]

\* jump to an A32 address
set_arm_addr(addr) == [address |-> addr, state |-> "ARM", unpred |-> FALSE]

\* jump to a Thumb address
set_thumb_addr(addr) == [address |-> addr, state |-> "THUMB", unpred |-> FALSE]

\* an overlay that loses the state tag of the outcome
set_unpred_addr_arm(old) ==
    [address |-> old.address, state |-> "ARM", unpred |-> TRUE]

\* overlay UNPREDICTABLE on an outcome
set_unpred_addr(old) == [old EXCEPT !.unpred = TRUE]

\* (flag & ~INSTR_ADDR_UNPRED) == INSTR_ADDR_ARM
IsArmFlag(o) == o.state = "ARM"

\* flag == INSTR_ADDR_UNDEF
IsUndefFlag(o) == o.state = "UNDEF" /\ ~o.unpred

IsLinear(o) == o.state = "ARM" /\ o.address = LIN_ADDR

(***************************************************************************)
(* The register snapshot rpi2_reg_context (rpi2.h): storage[0..15] are the *)
(* general registers, storage[15] = reg.r15, reg.cpsr, reg.spsr.           *)
(***************************************************************************)
Reg(ctx, n) == ctx.storage[n]

\* register value as an operand: PC reads 8 bytes ahead
RegPc8(ctx, n) ==
    IF n = 15 THEN AddW(ctx.storage[n], W(0, 8)) ELSE ctx.storage[n]

\* will_branch(instr): does the condition field (bits 31-28) hold under the
\* flags N, Z, C, V (bits 31-28) of the current status word
cond_holds(cond, N, Z, C, V) ==
    CASE cond = 0 -> Z
      [] cond = 1 -> ~Z
      [] cond = 2 -> C
      [] cond = 3 -> ~C
      [] cond = 4 -> N
      [] cond = 5 -> ~N
      [] cond = 6 -> V
      [] cond = 7 -> ~V
      [] cond = 8 -> C /\ ~Z
      [] cond = 9 -> ~C \/ Z
      [] cond = 10 -> N = V
      [] cond = 11 -> N # V
      [] cond = 12 -> ~Z /\ (N = V)
      [] cond = 13 -> Z \/ (N # V)
      [] OTHER -> TRUE

will_branch(ctx, instr) ==
    cond_holds(bitrng(instr, 31, 28), bit(ctx.cpsr, 31) = 1,
               bit(ctx.cpsr, 30) = 1, bit(ctx.cpsr, 29) = 1,
               bit(ctx.cpsr, 28) = 1)

(***************************************************************************)
(* arm_branch: B, BL, BLX (label), BX, BLX (register), BXJ                 *)
(***************************************************************************)
\* (~0) << n
MaskFrom(n) == ShlW(W(Half - 1, Half - 1), n)

\* the register forms with the low bits of the address left in place
branch_to_reg_keep(v) ==
    IF bit(v, 0) = 1 THEN set_thumb_addr(v)
    ELSE IF bit(v, 1) = 0 THEN set_arm_addr(v)
         ELSE set_unpred_addr(set_addr_lin)

\* the register forms: the state is chosen by the low bits of the register
branch_to_reg(v) ==
    IF bit(v, 0) = 1
    THEN set_thumb_addr(AndW(v, MaskFrom(1)))
    ELSE IF bit(v, 1) = 0
         THEN set_arm_addr(AndW(v, MaskFrom(2)))
         ELSE set_unpred_addr(set_addr_lin)

\* UNPREDICTABLE is added when the register is the PC
UnpredIf(c, o) == IF c THEN set_unpred_addr(o) ELSE o

arm_branch_reg(ctx, instr) ==
    UnpredIf(bitrng(instr, 3, 0) = 15,
             branch_to_reg(Reg(ctx, bitrng(instr, 3, 0))))

\* baddr without "baddr += 8"
branch_label_addr_no8(r15, instr) == AddW(r15, ShlW(sx32(instr, 23, 0), 2))

\* baddr of B and BL: r15, plus 8, plus the offset (wrapping at 32 bits)
branch_label_addr(r15, instr) ==
    AddW(AddW(r15, W(0, 8)), ShlW(sx32(instr, 23, 0), 2))

\* the switch on "extra", entered when the condition holds
arm_branch_taken(ctx, instr, extra) ==
    CASE extra \in {"arm_bra_b_lbl", "arm_bra_bl_lbl"} ->
            set_arm_addr(branch_label_addr(Reg(ctx, 15), instr))
      [] extra = "arm_bra_blx_lbl" ->
            set_thumb_addr(AddW(AddW(Reg(ctx, 15), W(0, 8)),
                                OrW(ShlW(sx32(instr, 23, 0), 2),
                                    W(0, bit(instr, 24) * 2))))
      [] extra \in {"arm_bra_bx_r", "arm_bra_blx_r", "arm_bra_bxj_r"} ->
            arm_branch_reg(ctx, instr)
      [] OTHER -> set_undef_addr

\* arm_branch without the test of the condition
arm_branch_nocond(ctx, instr, extra) == arm_branch_taken(ctx, instr, extra)

arm_branch(ctx, instr, extra) ==
    IF will_branch(ctx, instr)
    THEN arm_branch_taken(ctx, instr, extra)
    ELSE set_addr_lin

(***************************************************************************)
(* Values the C standard leaves open.  ub.junk is the content of a local   *)
(* variable read before any assignment; ub.sh32 tells whether a shift by   *)
(* 32 (the width of the operand) leaves the operand unchanged (shift count *)
(* taken modulo 32) or clears it.                                          *)
(***************************************************************************)
ShlUB(a, n, ub) ==
    IF n >= 32 THEN (IF ub.sh32 THEN a ELSE W(0, 0)) ELSE ShlW(a, n)

\* a || b: the logical (not bitwise) or of C, 0 or 1
LogOrW(a, b) == IF IsZeroW(a) /\ IsZeroW(b) THEN W(0, 0) ELSE W(0, 1)

\* the rotate of arm_core_data_bit: lines 2295-2300 and 2358-2362
ror_bit(x, n, ub) ==
    LogOrW(AndW(ShrW(x, n), NotW(MaskFrom(n))),
           AndW(ShlUB(bitrngW(x, n, 0), 32 - n, ub), MaskFrom(n)))

\* state selection from the low bits of a candidate address (S bit clear)
low_bits_jump(a) ==
    IF bit(a, 0) = 1 THEN set_thumb_addr(a)
    ELSE IF bitrng(a, 1, 0) = 0 THEN set_arm_addr(a)
         ELSE set_unpred_addr(set_thumb_addr(a))

ARM_RET_BIT ==
    {"arm_ret_asr_imm", "arm_ret_lsr_imm", "arm_ret_lsl_imm",
     "arm_ret_ror_imm", "arm_ret_rrx_pc", "arm_ret_mov_pc"}

ARM_CDATA_BIT_R ==
    {"arm_cdata_asr_r", "arm_cdata_lsl_r", "arm_cdata_lsr_r", "arm_cdata_ror_r"}

ARM_CDATA_BIT_IMM ==
    {"arm_cdata_asr_imm", "arm_cdata_lsr_imm", "arm_cdata_lsl_imm",
     "arm_cdata_mov_r", "arm_cdata_ror_imm", "arm_cdata_rrx_r"}

\* first switch of arm_core_data_bit: the shifted value tmp3 (Rd = PC)
data_bit_shift(extra, tmp1, imm, rs, amt, carry, rm, ub) ==
        CASE extra \in {"arm_ret_asr_imm", "arm_cdata_asr_imm"} ->
                AsrW(tmp1, imm)
          [] extra \in {"arm_ret_lsr_imm", "arm_cdata_lsr_imm"} ->
                ShrW(tmp1, imm)
          [] extra \in {"arm_ret_lsl_imm", "arm_cdata_lsl_imm"} ->
                ShlW(tmp1, imm)
          [] extra \in {"arm_ret_mov_pc", "arm_cdata_mov_r"} -> tmp1
          [] extra \in {"arm_ret_ror_imm", "arm_cdata_ror_imm"} ->
                ror_bit(tmp1, imm, ub)
          [] extra \in {"arm_ret_rrx_pc", "arm_cdata_rrx_r"} ->
                OrW(ShrW(tmp1, 1), ShlW(W(0, carry), 31))
          [] extra = "arm_cdata_asr_r" -> AsrW(tmp1, amt)
          [] extra = "arm_cdata_lsl_r" ->
                IF rs.hi > 0 \/ rs.lo > 31 THEN W(0, 0) ELSE ShlW(tmp1, amt)
          [] extra = "arm_cdata_lsr_r" ->
                IF rs.hi > 0 \/ rs.lo > 31 THEN W(0, 0) ELSE ShrW(tmp1, amt)
          [] extra = "arm_cdata_ror_r" ->
                IF amt = 0 THEN tmp1 ELSE ror_bit(tmp1, amt, ub)
          [] OTHER -> WordOf(rm)

data_bit_value(ctx, instr, extra, ub) ==
    data_bit_shift(extra, RegPc8(ctx, bitrng(instr, 3, 0)),
                   bitrng(instr, 11, 7), RegPc8(ctx, bitrng(instr, 11, 8)),
                   RegPc8(ctx, bitrng(instr, 11, 8)).lo % 32,
                   bit(ctx.cpsr, 29), bitrng(instr, 3, 0), ub)

\* second switch of arm_core_data_bit: the outcome from tmp3
data_bit_outcome(ctx, instr, extra, rdpc, tmp3, mode) ==
        CASE extra \in ARM_RET_BIT ->
                IF bit(instr, 20) = 0
                THEN low_bits_jump(tmp3)
                ELSE CASE mode \in {16, 31} ->
                            set_unpred_addr(set_arm_addr(W(0, 8)))
                       [] mode = 26 -> set_undef_addr
                       [] OTHER ->
                            IF bit(ctx.spsr, 5) = 1
                            THEN set_thumb_addr(tmp3)
                            ELSE set_undef_addr
          [] extra \in ARM_CDATA_BIT_R ->
                IF rdpc
                THEN set_unpred_addr(
                        IF bit(tmp3, 0) = 1 THEN set_thumb_addr(tmp3)
                        ELSE IF bitrng(tmp3, 1, 0) = 0 THEN set_arm_addr(tmp3)
                             ELSE set_thumb_addr(tmp3))
                ELSE set_addr_lin
          [] OTHER -> set_addr_lin

\* tmp3 is assigned only when Rd is the PC
arm_core_data_bit(ctx, instr, extra, ub) ==
    data_bit_outcome(ctx, instr, extra, bitrng(instr, 15, 12) = 15,
                     IF bitrng(instr, 15, 12) = 15
                     THEN data_bit_value(ctx, instr, extra, ub)
                     ELSE ub.junk,
                     bitrng(ctx.cpsr, 4, 0))

(***************************************************************************)
(* arm_vfp_ldst_elem: VLDn / VSTn element and structure load/store         *)
(***************************************************************************)
B2N(b) == IF b THEN 1 ELSE 0

\* the counter "und" at the end of the switch (lines 5192-5382)
vfp_elem_und(instr, extra) ==
    LET type  == bitrng(instr, 11, 8)
        align == bitrng(instr, 5, 4)
        size  == bitrng(instr, 7, 6)
        ia    == bitrng(instr, 7, 4)
        sz    == bitrng(instr, 11, 10)
    IN  CASE extra \in {"arm_vldste_vld1_mult", "arm_vldste_vst1_mult"} ->
                CASE type \in {6, 7} -> B2N(align \in {2, 3})
                  [] type = 10 -> B2N(align = 3)
                  [] OTHER -> 0
          [] extra \in {"arm_vldste_vld2_mult", "arm_vldste_vst2_mult"} ->
                B2N(size = 3) + B2N(type \in {8, 9} /\ align = 3)
          [] extra \in {"arm_vldste_vld3_mult", "arm_vldste_vst3_mult"} ->
                B2N(bit(instr, 5) = 1) + B2N(size = 3)
          [] extra \in {"arm_vldste_vld4_mult", "arm_vldste_vst4_mult"} ->
                B2N(size = 3)
          [] extra \in {"arm_vldste_vld1_one", "arm_vldste_vst1_one"} ->
                CASE sz = 0 -> B2N(ia % 2 = 1)
                  [] sz = 1 -> B2N((ia \div 2) % 2 = 1)
                  [] sz = 2 -> B2N((ia \div 4) % 2 = 1)
                                 + B2N(ia % 4 \in {1, 2})
                  [] OTHER -> 0
          [] extra \in {"arm_vldste_vld2_one", "arm_vldste_vst2_one"} ->
                B2N(sz = 2 /\ (ia \div 2) % 2 = 1)
          [] extra \in {"arm_vldste_vld3_one", "arm_vldste_vst3_one"} ->
                CASE sz \in {0, 1} -> B2N(ia % 2 = 1)
                  [] sz = 2 -> B2N(ia % 4 # 0)
                  [] OTHER -> 0
          [] extra \in {"arm_vldste_vld4_one", "arm_vldste_vst4_one"} ->
                B2N(sz = 2 /\ ia % 4 # 0)
          [] extra = "arm_vldste_vld1_all" ->
                B2N(size = 3) + B2N(size = 0 /\ bit(instr, 4) = 1)
          [] extra = "arm_vldste_vld2_all" -> B2N(size = 3)
          [] extra = "arm_vldste_vld3_all" ->
                B2N(size = 3 \/ bit(instr, 4) = 1)
          [] extra = "arm_vldste_vld4_all" ->
                B2N(size = 3 /\ bit(instr, 4) = 0)
          [] OTHER -> 0

\* Every case of the switch leaves it at its first "break": the statements
\* on the base register (lines 5354-5379) follow that break inside the last
\* case and are never executed, so retval keeps its initial value and "unp"
\* stays 0.
arm_vfp_ldst_elem(ctx, instr, extra) ==
    LET und    == vfp_elem_und(instr, extra)
        unp    == 0
        retval == set_undef_addr
    IN  IF und # 0 THEN set_undef_addr
        ELSE IF unp # 0 THEN set_unpred_addr(retval)
             ELSE retval

(***************************************************************************)
(* arm_mux: sub-dispatcher of the multiplexed instruction encodings        *)
(***************************************************************************)
\* MSR (register), privileged: lines 403-463
mux_msr_r_pr(ctx, instr) ==
    LET mode == bitrng(ctx.cpsr, 4, 0)
        tobe == Reg(ctx, bitrng(instr, 3, 0)).lo % 32
    IN  CASE mode = 16 ->
                UnpredIf(bit(instr, 22) = 1
                           \/ bitrng(instr, 19, 18) = 0
                           \/ bitrng(instr, 3, 0) = 15, set_addr_lin)
          [] mode = 31 ->
                UnpredIf((tobe # 16 /\ tobe # 31)
                           \/ bitrng(instr, 19, 16) = 0
                           \/ bitrng(instr, 3, 0) = 15, set_addr_lin)
          [] OTHER ->
                UnpredIf(bitrng(instr, 19, 16) = 0
                           \/ bitrng(instr, 3, 0) = 15, set_addr_lin)

\* MRS (register), privileged: lines 464-530
\* 0xf80f0000 = W(63503, 0), 0xf8ff03df = W(63743, 991)
mux_mrs_r_pr(ctx, instr) ==
    LET mode == bitrng(ctx.cpsr, 4, 0)
    IN  IF bitrng(instr, 11, 8) # 15 THEN set_addr_lin
        ELSE CASE mode = 16 ->
                    IF bit(instr, 22) = 0
                    THEN set_unpred_addr(
                            set_arm_addr(AndW(ctx.cpsr, W(63503, 0))))
                    ELSE set_unpred_addr(set_addr_lin)
               [] mode = 31 ->
                    IF bit(instr, 22) = 0
                    THEN set_unpred_addr(
                            set_arm_addr(AndW(ctx.cpsr, W(63743, 991))))
                    ELSE set_unpred_addr(set_addr_lin)
               [] OTHER ->
                    IF bit(instr, 22) = 0
                    THEN set_unpred_addr(
                            set_arm_addr(AndW(ctx.cpsr, W(63743, 991))))
                    ELSE set_unpred_addr(set_arm_addr(ctx.spsr))

\* MSR (immediate), NOP, YIELD and the other hints: lines 531-583
mux_msr_i_pr_hints(ctx, instr) ==
    LET mode == bitrng(ctx.cpsr, 4, 0)
        tobe == Reg(ctx, bitrng(instr, 3, 0)).lo % 32
        hint == bitrng(instr, 7, 0)
    IN  IF bitrng(instr, 19, 16) # 0
        THEN CASE mode = 16 -> UnpredIf(bit(instr, 22) = 1, set_addr_lin)
               [] mode = 31 ->
                    UnpredIf((tobe # 16 /\ tobe # 31) \/ bit(instr, 22) = 1,
                             set_addr_lin)
               [] OTHER -> set_addr_lin
        ELSE IF hint \in 0..4 THEN set_addr_lin
             ELSE IF hint \div 16 # 15 THEN set_undef_addr
                  ELSE set_addr_lin

\* LSL (immediate) / MOV (register): lines 312-366
mux_lsl_i_mov(ctx, instr, extra, ub) ==
    IF bitrng(instr, 11, 7) = 0
    THEN IF extra = "arm_mux_lsl_i_mov"
         THEN arm_core_data_bit(ctx, instr, "arm_cdata_mov_r", ub)
         ELSE IF bit(instr, 20) = 1
              THEN arm_core_data_bit(ctx, instr, "arm_ret_mov_pc", ub)
              ELSE arm_core_data_bit(ctx, instr, "arm_cdata_mov_r", ub)
    ELSE IF extra = "arm_mux_lsl_i_mov"
         THEN arm_core_data_bit(ctx, instr, "arm_cdata_lsl_imm", ub)
         ELSE IF bit(instr, 20) = 1
              THEN arm_core_data_bit(ctx, instr, "arm_ret_lsl_imm", ub)
              ELSE arm_core_data_bit(ctx, instr, "arm_cdata_lsl_imm", ub)

\* VSTn / VLDn (multiple n-element structures): lines 609-670
mux_vldst_type(ctx, instr, ld) ==
    LET type == bitrng(instr, 11, 8)
        pre  == IF ld THEN "arm_vldste_vld" ELSE "arm_vldste_vst"
    IN  CASE type \in {2, 6, 7, 10} ->
                arm_vfp_ldst_elem(ctx, instr, pre \o "1_mult")
          [] type \in {3, 8, 9} ->
                arm_vfp_ldst_elem(ctx, instr, pre \o "2_mult")
          [] type \in {4, 5} ->
                arm_vfp_ldst_elem(ctx, instr, pre \o "3_mult")
          [] type \in {0, 1} ->
                arm_vfp_ldst_elem(ctx, instr, pre \o "4_mult")
          [] OTHER -> set_undef_addr

LinIf(c) == IF c THEN set_addr_lin ELSE set_undef_addr

\* the switch on "extra": lines 166-673
arm_mux_switch(ctx, instr, extra, ub) ==
    CASE extra = "arm_mux_vbic_vmvn" -> LinIf(bitrng(instr, 11, 9) # 7)
      [] extra = "arm_mux_wfe_wfi" ->
            LinIf(bitrng(instr, 7, 0) = 2 \/ bitrng(instr, 7, 0) = 2)
      [] extra = "arm_mux_vshrn_q_imm" -> LinIf(bit(instr, 0) = 0)
      [] extra = "arm_mux_vrshrn_q_imm" -> LinIf(bit(instr, 0) = 0)
      [] extra = "arm_mux_vshll_i_vmovl" ->
            LinIf(bit(instr, 12) = 0 /\ bitrng(instr, 21, 19) # 0)
      [] extra = "arm_mux_vorr_i_vmov_i" ->
            IF bit(instr, 6) = 1 /\ bit(instr, 12) = 0
            THEN IF bit(instr, 7) = 0 /\ bitrng(instr, 21, 19) = 0
                 THEN LinIf((bit(instr, 5) = 0 /\ bit(instr, 8) = 1
                               /\ bitrng(instr, 11, 10) # 3)
                            \/ bit(instr, 8) = 0
                            \/ bitrng(instr, 11, 10) = 3)
                 ELSE LinIf(bit(instr, 6) = 1 /\ bit(instr, 0) = 0)
            ELSE set_undef_addr
      [] extra \in {"arm_mux_lsl_i_mov", "arm_mux_lsl_i_mov_pc"} ->
            mux_lsl_i_mov(ctx, instr, extra, ub)
      [] extra = "arm_mux_ror_i_rrx" ->
            IF bitrng(instr, 11, 7) = 0
            THEN arm_core_data_bit(ctx, instr, "arm_cdata_rrx_r", ub)
            ELSE arm_core_data_bit(ctx, instr, "arm_cdata_ror_imm", ub)
      [] extra = "arm_mux_vmovn_q" ->
            LinIf(bitrng(instr, 19, 18) # 3 /\ bit(instr, 0) = 0)
      [] extra = "arm_mux_msr_r_pr" -> mux_msr_r_pr(ctx, instr)
      [] extra = "arm_mux_mrs_r_pr" -> mux_mrs_r_pr(ctx, instr)
      [] extra = "arm_mux_msr_i_pr_hints" -> mux_msr_i_pr_hints(ctx, instr)
      [] extra = "arm_mux_vorr_vmov_nm" ->
            LinIf(bit(instr, 16) = 0 /\ bit(instr, 12) = 0
                    /\ bit(instr, 0) = 0)
      [] extra = "arm_mux_vst_type" -> mux_vldst_type(ctx, instr, FALSE)
      [] extra = "arm_mux_vld_type" -> mux_vldst_type(ctx, instr, TRUE)
      [] OTHER -> set_undef_addr

\* the condition check after the switch: lines 674-684
mux_cond_gate(ctx, instr, r) ==
    IF IsArmFlag(r) /\ ~will_branch(ctx, instr) THEN set_addr_lin ELSE r

arm_mux(ctx, instr, extra, ub) ==
    mux_cond_gate(ctx, instr, arm_mux_switch(ctx, instr, extra, ub))

(***************************************************************************)
(* Signed, 64-bit and lane arithmetic of the data-processing handlers      *)
(***************************************************************************)
\* (int)a < 0
IsNegW(a) == a.hi >= 32768

NegW(a) == SubW(W(0, 0), a)

AbsW(a) == IF IsNegW(a) THEN NegW(a) ELSE a

\* a >= b, both unsigned
GeW(a, b) == a.hi > b.hi \/ (a.hi = b.hi /\ a.lo >= b.lo)

\* (int)a as a number, and a number in the range of int as a word
ToInt(a) ==
    IF a.hi >= 32768 THEN ((a.hi - Half) * Half) + a.lo
    ELSE (a.hi * Half) + a.lo

FromInt(i) == IF i < 0 THEN NotW(WordOf(-(i + 1))) ELSE WordOf(i)

\* x rotated right by n bits, 0 <= n <= 31
RorW(x, n) == IF n = 0 THEN x ELSE OrW(ShrW(x, n), ShlW(x, 32 - n))

\* the product of two 16-bit numbers as a word: x * (256 * yh + yl)
Mul16Sum(p1, t) == W(((p1 \div 256) + (t \div Half)) % Half, t % Half)

Mul16(x, y) ==
    Mul16Sum(x * (y \div 256),
             (((x * (y \div 256)) % 256) * 256) + (x * (y % 256)))

\* a * b modulo 2^32 (unsigned int product)
MulW(a, b) ==
    W((Mul16(a.lo, b.lo).hi + Mul16(a.hi, b.lo).lo + Mul16(a.lo, b.hi).lo)
        % Half,
      Mul16(a.lo, b.lo).lo)

\* a long long as two words: h = bits 63-32, l = bits 31-0
D(x, y) == [h |-> x, l |-> y]

SExt64(w) ==
    D(IF IsNegW(w) THEN W(Half - 1, Half - 1) ELSE W(0, 0), w)

ZExt64(w) == D(W(0, 0), w)

\* the carry out of a + b
CarryW(a, b) == (a.hi + b.hi + ((a.lo + b.lo) \div Half)) \div Half

Add64(x, y) ==
    D(AddW(AddW(x.h, y.h), W(0, CarryW(x.l, y.l))), AddW(x.l, y.l))

Sub64(x, y) ==
    Add64(Add64(x, D(NotW(y.h), NotW(y.l))), D(W(0, 0), W(0, 1)))

\* the full 64-bit product of two words, unsigned and signed
UMul64Digits(d0, c1, r2, top) ==
    D(W(((((c1 \div Half) + r2) \div Half) + top) % Half,
        ((c1 \div Half) + r2) % Half),
      W(c1 % Half, d0))

UMul64(a, b) ==
    UMul64Digits(Mul16(a.lo, b.lo).lo,
                 Mul16(a.lo, b.lo).hi + Mul16(a.lo, b.hi).lo
                   + Mul16(a.hi, b.lo).lo,
                 Mul16(a.lo, b.hi).hi + Mul16(a.hi, b.lo).hi
                   + Mul16(a.hi, b.hi).lo,
                 Mul16(a.hi, b.hi).hi)

SMul64Fix(a, b, u) ==
    D(SubW(SubW(u.h, IF IsNegW(a) THEN b ELSE W(0, 0)),
           IF IsNegW(b) THEN a ELSE W(0, 0)),
      u.l)

SMul64(a, b) == SMul64Fix(a, b, UMul64(a, b))

\* n / d, both unsigned, d # 0: binary long division, eight bits of the
\* dividend at a time; st holds the remainder r and the quotient q
RECURSIVE UDivStep(_, _, _, _, _)
UDivSub(n, d, i, lo, top, r2, q) ==
    IF top = 1 \/ GeW(r2, d)
    THEN UDivStep(n, d, i - 1, lo,
                  [r |-> SubW(r2, d), q |-> AddW(ShlW(q, 1), W(0, 1))])
    ELSE UDivStep(n, d, i - 1, lo, [r |-> r2, q |-> ShlW(q, 1)])

UDivStep(n, d, i, lo, st) ==
    IF i < lo THEN st
    ELSE UDivSub(n, d, i, lo, bit(st.r, 31),
                 AddW(ShlW(st.r, 1), W(0, bit(n, i))), st.q)

UDivW(n, d) ==
    UDivStep(n, d, 7, 0,
        UDivStep(n, d, 15, 8,
            UDivStep(n, d, 23, 16,
                UDivStep(n, d, 31, 24, [r |-> W(0, 0), q |-> W(0, 0)])))).q

\* x / y on int, y # 0: the quotient is truncated towards zero.  The C
\* standard leaves INT_MIN / -1 open: ub.ovf tells whether the quotient is
\* an arbitrary word or the wrapped value 0x80000000.
SDivTrunc(x, y, ub) ==
    IF x = W(32768, 0) /\ y = W(Half - 1, Half - 1)
    THEN (IF ub.ovf THEN ub.junk ELSE W(32768, 0))
    ELSE IF IsNegW(x) = IsNegW(y) THEN UDivW(AbsW(x), AbsW(y))
         ELSE NegW(UDivW(AbsW(x), AbsW(y)))

\* a * b on int, assigned to a long long.  A product outside the range of
\* int is left open by the C standard: ub.ovf tells whether the build keeps
\* the full product or the 32-bit product, sign-extended.
smul_int(a, b, ub) == IF ub.ovf THEN SMul64(a, b) ELSE SExt64(MulW(a, b))

\* (int)(short int)x for a 16-bit field x, as a number and as a word
S16(x) == IF x >= 32768 THEN x - Half ELSE x

SExtHalf(x) == W(IF x >= 32768 THEN Half - 1 ELSE 0, x)

\* byte k of a word, k = 0 the lowest
Byte(w, k) ==
    CASE k = 0 -> w.lo % 256
      [] k = 1 -> w.lo \div 256
      [] k = 2 -> w.hi % 256
      [] OTHER -> w.hi \div 256

\* i >> 1 on int
Asr1(i) == i \div 2

Clamp(v, lo, hi) == IF v < lo THEN lo ELSE IF v > hi THEN hi ELSE v

\* instr_util.h: the halves of a word as signed numbers
instr_util_shgethi(w) == S16(w.hi)
instr_util_shgetlo(w) == S16(w.lo)

\* instr_util.h: a byte as a signed number
instr_util_signx_byte(x) ==
    IF (x % 256) >= 128 THEN (x % 256) - 256 ELSE x % 256

\* instr_util.h: saturate to n bits, signed; the result for a width below
\* one bit is not defined
instr_util_ssat(v, n, ub) ==
    IF n < 1 THEN ToInt(ub.junk)
    ELSE IF n > 31 THEN v
         ELSE Clamp(v, -Pow2(n - 1), Pow2(n - 1) - 1)

\* instr_util.h: saturate to n bits, unsigned, 0 <= n <= 31
instr_util_usat(v, n) ==
    Clamp(v, 0, IF n >= 31 THEN 2147483647 ELSE Pow2(n) - 1)

\* instr_util.h: saturate a long long to 32 bits, signed
instr_util_lssat(x) ==
    IF IsNegW(x.h)
    THEN (IF x.h = W(Half - 1, Half - 1) /\ IsNegW(x.l) THEN x
          ELSE D(W(Half - 1, Half - 1), W(32768, 0)))
    ELSE (IF x.h = W(0, 0) /\ ~IsNegW(x.l) THEN x
          ELSE D(W(0, 0), W(32767, Half - 1)))

\* instr_util.h: two half-words, four bytes put into a word, high first
instr_util_ustuffs16(h, l) == W(h % Half, l % Half)
instr_util_ustuffu16(h, l) == W(h % Half, l % Half)
instr_util_ustuffs8(b3, b2, b1, b0) ==
    W(((b3 % 256) * 256) + (b2 % 256), ((b1 % 256) * 256) + (b0 % 256))
instr_util_ustuffu8(b3, b2, b1, b0) ==
    W(((b3 % 256) * 256) + (b2 % 256), ((b1 % 256) * 256) + (b0 % 256))

\* instr_util.h: rotate right by n bytes
instr_util_rorb(w, n) == RorW(w, 8 * (n % 4))

(***************************************************************************)
(* arm_core_data_div: SDIV, UDIV                                           *)
(***************************************************************************)
\* SDIV, stmp3 / stmp2 rounded towards zero: lines 877-900
sdiv_value(stmp3, stmp2, ub) ==
    IF IsZeroW(stmp2) THEN W(0, 0)
    ELSE IF bit(stmp3, 31) = bit(stmp2, 31)
         THEN SDivTrunc(stmp3, stmp2, ub)
         ELSE AsrW(AddW(SDivTrunc(ShlW(stmp3, 1), stmp2, ub), W(0, 1)), 1)

\* UDIV: lines 904-928.  tmp4 is not cleared between the two operands, and
\* with a zero divisor tmp1 still holds the index of Rd.
udiv_value(tmp3, tmp2, rd) ==
    IF IsZeroW(tmp2) THEN WordOf(rd) ELSE UDivW(tmp3, tmp2)

div_pc(ctx, extra, rd, rm, rn, ub) ==
    IF extra = "arm_div_sdiv"
    THEN set_arm_addr(sdiv_value(RegPc8(ctx, rn), RegPc8(ctx, rm), ub))
    ELSE set_arm_addr(
            udiv_value(AddW(Reg(ctx, rn),
                            W(0, (IF rm = 15 THEN 8 ELSE 0)
                                   + (IF rn = 15 THEN 8 ELSE 0))),
                       RegPc8(ctx, rm), rd))

arm_core_data_div(ctx, instr, extra, ub) ==
    IF bitrng(instr, 19, 16) = 15
    THEN div_pc(ctx, extra, bitrng(instr, 19, 16), bitrng(instr, 11, 8),
                bitrng(instr, 3, 0), ub)
    ELSE UnpredIf(bitrng(instr, 11, 8) = 15 \/ bitrng(instr, 3, 0) = 15,
                  set_addr_lin)

(***************************************************************************)
(* arm_core_data_mac: multiplies with a 32-bit result                      *)
(***************************************************************************)
ARM_CMAC ==
    {"arm_cmac_mul", "arm_cmac_mla", "arm_cmac_mls", "arm_cmac_smulw",
     "arm_cmac_smlaw", "arm_cmac_smul", "arm_cmac_smla", "arm_cmac_smmul",
     "arm_cmac_smmla", "arm_cmac_smmls", "arm_cmac_smuad", "arm_cmac_smusd",
     "arm_cmac_smlad", "arm_cmac_smlsd"}

\* "swap Rm": lines 1075-1081
SwapHalves(w, m) == IF m = 1 THEN W(w.lo, w.hi) ELSE w

\* the sum or difference of the two 16 x 16 products: lines 1082-1092
dual_mul(tmp1, tmp2, add) ==
    IF add
    THEN AddW(MulW(SExtHalf(tmp1.lo), SExtHalf(tmp2.lo)),
              MulW(SExtHalf(tmp1.hi), SExtHalf(tmp2.hi)))
    ELSE SubW(MulW(SExtHalf(tmp1.lo), SExtHalf(tmp2.lo)),
              MulW(SExtHalf(tmp1.hi), SExtHalf(tmp2.hi)))

\* the half of a register chosen by a bit of the instruction
HalfSel(w, top) == IF top = 1 THEN w.hi ELSE w.lo

\* (ltmp >> 16) & 0xffffffff
Mid64(x) == W(x.h.lo, x.l.hi)

\* the value before Ra is accumulated: lines 966-1092
mac_product(instr, extra, tmp1, tmp2, ub) ==
    CASE extra \in {"arm_cmac_mul", "arm_cmac_mla", "arm_cmac_mls"} ->
            MulW(tmp1, tmp2)
      [] extra \in {"arm_cmac_smulw", "arm_cmac_smlaw"} ->
            Mid64(smul_int(tmp2, SExtHalf(HalfSel(tmp1, bit(instr, 6))), ub))
      [] extra \in {"arm_cmac_smul", "arm_cmac_smla"} ->
            MulW(SExtHalf(HalfSel(tmp2, bit(instr, 5))),
                 SExtHalf(HalfSel(tmp1, bit(instr, 6))))
      [] extra \in {"arm_cmac_smmul", "arm_cmac_smmla", "arm_cmac_smmls"} ->
            Add64(smul_int(tmp1, tmp2, ub),
                  D(W(0, 0), W(32768 * bit(instr, 5), 0))).h
      [] OTHER ->
            dual_mul(SwapHalves(tmp1, bit(instr, 5)), tmp2,
                     extra \in {"arm_cmac_smuad", "arm_cmac_smlad"})

\* Ra added, subtracted from, or left out: lines 975-987 and the like
mac_accumulate(extra, p, ra) ==
    CASE extra \in {"arm_cmac_mla", "arm_cmac_smlaw", "arm_cmac_smla",
                    "arm_cmac_smmla", "arm_cmac_smlad", "arm_cmac_smlsd"} ->
            AddW(p, ra)
      [] extra \in {"arm_cmac_mls", "arm_cmac_smmls"} -> SubW(ra, p)
      [] OTHER -> p

\* the body executed when Rd is the PC
mac_pc(ctx, instr, extra, ub) ==
    IF extra \in ARM_CMAC
    THEN set_unpred_addr(set_arm_addr(
            mac_accumulate(extra,
                mac_product(instr, extra, RegPc8(ctx, bitrng(instr, 11, 8)),
                            RegPc8(ctx, bitrng(instr, 3, 0)), ub),
                Reg(ctx, bitrng(instr, 15, 12)))))
    ELSE set_undef_addr

\* the handler without the test of Rd
arm_core_data_mac_nogate(ctx, instr, extra, ub) ==
    mac_pc(ctx, instr, extra, ub)

arm_core_data_mac(ctx, instr, extra, ub) ==
    IF bitrng(instr, 19, 16) = 15
    THEN mac_pc(ctx, instr, extra, ub)
    ELSE set_addr_lin

(***************************************************************************)
(* arm_core_data_macd: multiplies with a 64-bit result                     *)
(***************************************************************************)
\* ltmp / utmp: lines 1143-1253.  tmp3 and tmp4 are the indexes of RdHi and
\* RdLo, hi and lo the contents of these registers.
macd_product(instr, extra, tmp1, tmp2, tmp3, tmp4, hi, lo, ub) ==
    CASE extra \in {"arm_cmac_smlal16", "arm_cmac_umaal"} ->
            Add64(smul_int(tmp1, tmp2, ub), SExt64(AddW(hi, lo)))
      [] extra = "arm_cmac_smlal" ->
            Add64(Add64(smul_int(tmp1, tmp2, ub), D(WordOf(tmp3), W(0, 0))),
                  SExt64(WordOf(tmp4)))
      [] extra = "arm_cmac_smull" -> smul_int(tmp1, tmp2, ub)
      [] extra = "arm_cmac_umlal" ->
            Add64(Add64(ZExt64(MulW(tmp1, tmp2)), D(WordOf(tmp3), W(0, 0))),
                  ZExt64(WordOf(tmp4)))
      [] extra = "arm_cmac_umull" -> ZExt64(MulW(tmp1, tmp2))
      [] OTHER ->
            Add64(Add64(SExt64(dual_mul(SwapHalves(tmp1, bit(instr, 5)),
                                        tmp2, extra = "arm_cmac_smlald")),
                        D(hi, W(0, 0))),
                  SExt64(lo))

ARM_CMACD ==
    {"arm_cmac_smlal16", "arm_cmac_smlal", "arm_cmac_smull", "arm_cmac_umaal",
     "arm_cmac_umlal", "arm_cmac_umull", "arm_cmac_smlald", "arm_cmac_smlsld"}

\* the half of the result that lands in the PC; tmp4 keeps the index of
\* RdLo when no case of the switch is taken
macd_half(extra, tmp3, tmp4, ltmp) ==
    IF extra \in ARM_CMACD
    THEN (IF tmp3 = 15 THEN ltmp.h ELSE ltmp.l)
    ELSE WordOf(tmp4)

macd_pc(ctx, instr, extra, tmp3, tmp4, ub) ==
    set_unpred_addr(set_arm_addr(
        macd_half(extra, tmp3, tmp4,
                  macd_product(instr, extra,
                               RegPc8(ctx, bitrng(instr, 11, 8)),
                               RegPc8(ctx, bitrng(instr, 3, 0)),
                               tmp3, tmp4, Reg(ctx, tmp3), Reg(ctx, tmp4),
                               ub))))

arm_core_data_macd(ctx, instr, extra, ub) ==
    IF bitrng(instr, 19, 16) = 15 \/ bitrng(instr, 15, 12) = 15
    THEN macd_pc(ctx, instr, extra, bitrng(instr, 19, 16),
                 bitrng(instr, 15, 12), ub)
    ELSE set_addr_lin

(***************************************************************************)
(* arm_core_data_pack: PKHBT / PKHTB and the extend instructions           *)
(***************************************************************************)
ARM_PACK_EXT ==
    {"arm_pack_sxtb", "arm_pack_uxtb", "arm_pack_sxtab", "arm_pack_uxtab",
     "arm_pack_sxtab16", "arm_pack_uxtab16", "arm_pack_sxtb16",
     "arm_pack_uxtb16", "arm_pack_sxth", "arm_pack_sxtah", "arm_pack_uxtah",
     "arm_pack_uxth"}

\* PKH with Rd = PC: lines 1627-1656; tmp1 = (Rm), tmp3 = (Rn)
pack_pkh(instr, tmp1, tmp3) ==
    IF bit(instr, 6) = 1
    THEN W(tmp3.hi, AsrW(tmp1, bitrng(instr, 11, 7)).lo)
    ELSE W(ShlW(tmp1, bitrng(instr, 11, 7)).hi, tmp3.lo)

\* the extract mask tmp2: lines 1702-1716, not assigned for bits 21-20 = 1
pack_mask(sz, ub) ==
    CASE sz = 0 -> W(65280, 65280)
      [] sz = 2 -> MaskFrom(8)
      [] sz = 3 -> MaskFrom(16)
      [] OTHER -> ub.junk

\* the sign-extension bits, then the extracted data: lines 1718-1744
pack_extract(instr, tmp1, tmp2) ==
    OrW(IF bit(instr, 22) = 1
        THEN (IF bitrng(instr, 21, 20) = 0
              THEN W(IF bit(tmp1, 23) = 1 THEN 65280 ELSE 0,
                     IF bit(tmp1, 7) = 1 THEN 65280 ELSE 0)
              ELSE (IF IsZeroW(AndW(AndW(tmp1, NotW(tmp2)), ShrW(tmp2, 1)))
                    THEN W(0, 0) ELSE tmp2))
        ELSE W(0, 0),
        AndW(tmp1, NotW(tmp2)))

\* Rn added: lines 1749-1781; the signed sum of the byte and half-word
\* forms is computed into stmp1 and not used
pack_add(instr, tmp3, tmp1) ==
    IF bit(instr, 22) = 1
    THEN (IF bitrng(instr, 21, 20) = 0
          THEN instr_util_ustuffs16(
                  instr_util_shgethi(tmp1) + instr_util_shgethi(tmp3),
                  instr_util_shgetlo(tmp1) + instr_util_shgetlo(tmp3))
          ELSE tmp3)
    ELSE (IF bitrng(instr, 21, 20) = 0
          THEN instr_util_ustuffu16(tmp1.hi + tmp3.hi, tmp1.lo + tmp3.lo)
          ELSE AddW(tmp3, tmp1))

pack_ext(ctx, instr, tmp3) ==
    IF bitrng(instr, 19, 16) # 15
    THEN pack_add(instr, tmp3, Reg(ctx, bitrng(instr, 19, 16)))
    ELSE tmp3

\* the extend forms with Rd = PC: Rm is rotated by the index of Rm
pack_ext_pc(ctx, instr, ub) ==
    pack_ext(ctx, instr,
        pack_extract(instr,
            instr_util_rorb(RegPc8(ctx, bitrng(instr, 3, 0)),
                            bitrng(instr, 3, 0)),
            pack_mask(bitrng(instr, 21, 20), ub)))

arm_core_data_pack(ctx, instr, extra, ub) ==
    CASE extra = "arm_pack_pkh" ->
            IF bitrng(instr, 15, 12) = 15
            THEN set_unpred_addr(set_arm_addr(
                    pack_pkh(instr, RegPc8(ctx, bitrng(instr, 3, 0)),
                             RegPc8(ctx, bitrng(instr, 19, 16)))))
            ELSE set_addr_lin
      [] extra \in ARM_PACK_EXT ->
            IF bitrng(instr, 15, 12) = 15
            THEN set_unpred_addr(set_arm_addr(pack_ext_pc(ctx, instr, ub)))
            ELSE set_addr_lin
      [] OTHER -> set_undef_addr

(***************************************************************************)
(* arm_core_data_par: parallel add and subtract                            *)
(***************************************************************************)
ARM_PAR_S16 ==
    {"arm_par_qadd16", "arm_par_qsub16", "arm_par_sadd16", "arm_par_ssub16",
     "arm_par_shadd16", "arm_par_shsub16", "arm_par_qasx", "arm_par_qsax",
     "arm_par_sasx", "arm_par_shasx", "arm_par_shsax", "arm_par_ssax"}

ARM_PAR_U16 ==
    {"arm_par_uadd16", "arm_par_uhadd16", "arm_par_uhsub16",
     "arm_par_uqadd16", "arm_par_uqsub16", "arm_par_usub16", "arm_par_uasx",
     "arm_par_uhasx", "arm_par_uhsax", "arm_par_uqasx", "arm_par_uqsax",
     "arm_par_usax"}

ARM_PAR_S8 ==
    {"arm_par_qadd8", "arm_par_qsub8", "arm_par_sadd8", "arm_par_shadd8",
     "arm_par_shsub8", "arm_par_ssub8"}

ARM_PAR_U8 ==
    {"arm_par_uadd8", "arm_par_uhadd8", "arm_par_uhsub8", "arm_par_uqadd8",
     "arm_par_uqsub8", "arm_par_usub8"}

\* the half-word forms on the lanes ah:al of Rn and bh:bl of Rm, signed
\* numbers for the signed forms and unsigned numbers for the unsigned ones.
\* An unsigned difference is kept as a negative number: its low bits, and
\* the low bits of its half, are those of the wrapped 32-bit value.
par_16(extra, ah, al, bh, bl, ub) ==
    CASE extra = "arm_par_qadd16" ->
            instr_util_ustuffs16(instr_util_ssat(ah + bh, 16, ub),
                                 instr_util_ssat(al + bl, 16, ub))
      [] extra = "arm_par_qsub16" ->
            instr_util_ustuffs16(instr_util_ssat(ah - bh, 16, ub),
                                 instr_util_ssat(al - bl, 16, ub))
      [] extra = "arm_par_sadd16" -> instr_util_ustuffs16(ah + bh, al + bl)
      [] extra = "arm_par_ssub16" -> instr_util_ustuffs16(ah - bh, al - bl)
      [] extra \in {"arm_par_shadd16", "arm_par_shsub16"} ->
            instr_util_ustuffs16(Asr1(ah + bh), Asr1(al + bl))
      [] extra = "arm_par_qasx" ->
            instr_util_ustuffs16(instr_util_ssat(al + bh, 16, ub),
                                 instr_util_ssat(ah - bl, 16, ub))
      [] extra = "arm_par_qsax" ->
            instr_util_ustuffs16(instr_util_ssat(al - bh, 16, ub),
                                 instr_util_ssat(ah + bl, 16, ub))
      [] extra = "arm_par_sasx" -> instr_util_ustuffs16(al + bh, ah - bl)
      [] extra = "arm_par_shasx" ->
            instr_util_ustuffs16(Asr1(al + bh), Asr1(ah - bl))
      [] extra = "arm_par_shsax" ->
            instr_util_ustuffs16(Asr1(ah + bl), Asr1(al - bh))
      [] extra = "arm_par_ssax" -> instr_util_ustuffs16(al - bh, ah + bl)
      [] extra = "arm_par_uadd16" -> instr_util_ustuffu16(ah + bh, al + bl)
      [] extra = "arm_par_uhadd16" ->
            instr_util_ustuffu16(Asr1(ah + bh), Asr1(al + bl))
      [] extra = "arm_par_uhsub16" ->
            instr_util_ustuffu16(Asr1(ah - bh), Asr1(al - bl))
      [] extra = "arm_par_uqadd16" ->
            instr_util_ustuffu16(instr_util_usat(ah + bh, 16),
                                 instr_util_usat(al + bl, 16))
      [] extra = "arm_par_uqsub16" ->
            instr_util_ustuffu16(instr_util_usat(ah - bh, 16),
                                 instr_util_usat(al - bl, 16))
      [] extra = "arm_par_usub16" -> instr_util_ustuffu16(ah - bh, al - bl)
      [] extra = "arm_par_uasx" -> instr_util_ustuffu16(al + bh, ah - bl)
      [] extra = "arm_par_uhasx" ->
            instr_util_ustuffu16(Asr1(al + bh), Asr1(ah - bl))
      [] extra = "arm_par_uhsax" ->
            instr_util_ustuffu16(Asr1(ah + bl), Asr1(al - bh))
      [] extra = "arm_par_uqasx" ->
            instr_util_ustuffu16(instr_util_usat(al + bh, 16),
                                 instr_util_usat(ah - bl, 16))
      [] extra = "arm_par_uqsax" ->
            instr_util_ustuffu16(instr_util_usat(ah + bl, 16),
                                 instr_util_usat(al - bh, 16))
      [] OTHER -> instr_util_ustuffu16(ah + bl, al - bh)

\* one lane of the byte forms
par_lane8(extra, x, y, ub) ==
    CASE extra = "arm_par_qadd8" -> instr_util_ssat(x + y, 8, ub)
      [] extra = "arm_par_qsub8" -> instr_util_ssat(x - y, 8, ub)
      [] extra \in {"arm_par_sadd8", "arm_par_uadd8"} -> x + y
      [] extra \in {"arm_par_shadd8", "arm_par_uhadd8"} -> Asr1(x + y)
      [] extra \in {"arm_par_shsub8", "arm_par_uhsub8"} -> Asr1(x - y)
      [] extra \in {"arm_par_ssub8", "arm_par_usub8"} -> x - y
      [] extra = "arm_par_uqadd8" -> instr_util_usat(x + y, 8)
      [] OTHER -> instr_util_usat(x - y, 8)

par_s8(extra, a, b, ub) ==
    instr_util_ustuffs8(
        par_lane8(extra, instr_util_signx_byte(Byte(a, 3)),
                  instr_util_signx_byte(Byte(b, 3)), ub),
        par_lane8(extra, instr_util_signx_byte(Byte(a, 2)),
                  instr_util_signx_byte(Byte(b, 2)), ub),
        par_lane8(extra, instr_util_signx_byte(Byte(a, 1)),
                  instr_util_signx_byte(Byte(b, 1)), ub),
        par_lane8(extra, instr_util_signx_byte(Byte(a, 0)),
                  instr_util_signx_byte(Byte(b, 0)), ub))

par_u8(extra, a, b, ub) ==
    instr_util_ustuffu8(par_lane8(extra, Byte(a, 3), Byte(b, 3), ub),
                        par_lane8(extra, Byte(a, 2), Byte(b, 2), ub),
                        par_lane8(extra, Byte(a, 1), Byte(b, 1), ub),
                        par_lane8(extra, Byte(a, 0), Byte(b, 0), ub))

\* tmp4 after the switch: lines 1819-2116; not assigned when no case is taken
par_value(extra, tmp1, tmp2, ub) ==
    CASE extra \in ARM_PAR_S16 ->
            par_16(extra, instr_util_shgethi(tmp1), instr_util_shgetlo(tmp1),
                   instr_util_shgethi(tmp2), instr_util_shgetlo(tmp2), ub)
      [] extra \in ARM_PAR_U16 ->
            par_16(extra, tmp1.hi, tmp1.lo, tmp2.hi, tmp2.lo, ub)
      [] extra \in ARM_PAR_S8 -> par_s8(extra, tmp1, tmp2, ub)
      [] extra \in ARM_PAR_U8 -> par_u8(extra, tmp1, tmp2, ub)
      [] OTHER -> ub.junk

arm_core_data_par(ctx, instr, extra, ub) ==
    IF bitrng(instr, 15, 12) = 15
    THEN set_unpred_addr(set_arm_addr(
            par_value(extra, RegPc8(ctx, bitrng(instr, 19, 16)),
                      RegPc8(ctx, bitrng(instr, 3, 0)), ub)))
    ELSE set_addr_lin

(***************************************************************************)
(* arm_core_data_sat: saturating add / subtract and saturate               *)
(***************************************************************************)
\* QADD, QDADD, QDSUB, QSUB: lines 2153-2172; tmp3 keeps the index of Rm
\* when no case is taken
sat_q(extra, tmp1, tmp2, rm) ==
    CASE extra \in {"arm_sat_qadd", "arm_sat_qsub"} ->
            instr_util_lssat(Add64(ZExt64(tmp2), ZExt64(tmp1))).l
      [] extra \in {"arm_sat_qdadd", "arm_sat_qdsub"} ->
            instr_util_lssat(
                Sub64(ZExt64(tmp2),
                      instr_util_lssat(Add64(ZExt64(tmp1), ZExt64(tmp1))))).l
      [] OTHER -> WordOf(rm)

\* the operand of SSAT and USAT, shifted: lines 2192-2213
sat_operand(instr, tmp1, tmp2) ==
    IF bit(instr, 6) = 1
    THEN AsrW(tmp1, IF tmp2 = 0 THEN 31 ELSE tmp2)
    ELSE ShlW(tmp1, tmp2)

\* SSAT, USAT, SSAT16, USAT16: lines 2187-2241; tmp3 keeps the index of Rn
\* when no case is taken
sat_s(instr, extra, tmp1, rn, ub) ==
    CASE extra = "arm_sat_ssat" ->
            FromInt(instr_util_ssat(
                ToInt(sat_operand(instr, tmp1, bitrng(instr, 11, 7))),
                bitrng(instr, 20, 16) - 1, ub))
      [] extra = "arm_sat_usat" ->
            FromInt(instr_util_usat(
                ToInt(sat_operand(instr, tmp1, bitrng(instr, 11, 7))),
                bitrng(instr, 20, 16)))
      [] extra = "arm_sat_ssat16" ->
            instr_util_ustuffs16(
                instr_util_ssat(instr_util_shgethi(tmp1),
                                bitrng(instr, 19, 16), ub),
                instr_util_ssat(instr_util_shgetlo(tmp1),
                                bitrng(instr, 19, 16), ub))
      [] extra = "arm_sat_usat16" ->
            instr_util_ustuffs16(
                instr_util_usat(instr_util_shgethi(tmp1),
                                bitrng(instr, 19, 16)),
                instr_util_usat(instr_util_shgetlo(tmp1),
                                bitrng(instr, 19, 16)))
      [] OTHER -> WordOf(rn)

sat_pc(ctx, instr, extra, ub) ==
    IF bitrng(instr, 24, 23) = 2
    THEN sat_q(extra, RegPc8(ctx, bitrng(instr, 19, 16)),
               RegPc8(ctx, bitrng(instr, 3, 0)), bitrng(instr, 3, 0))
    ELSE sat_s(instr, extra, RegPc8(ctx, bitrng(instr, 3, 0)),
               bitrng(instr, 3, 0), ub)

arm_core_data_sat(ctx, instr, extra, ub) ==
    IF bitrng(instr, 15, 12) = 15
    THEN set_unpred_addr(set_arm_addr(sat_pc(ctx, instr, extra, ub)))
    ELSE set_addr_lin

(***************************************************************************)
(* arm_core_data_std_r, arm_core_data_std_sh, arm_core_data_std_i: the     *)
(* data-processing instructions with a register, a register-shifted        *)
(* register and an immediate operand                                       *)
(***************************************************************************)
\* the rotate of the three handlers: lines 2501-2505, 2679-2683, 2775-2779
ror_std(x, n) ==
    LogOrW(AndW(ShrW(x, n), NotW(MaskFrom(n))),
           AndW(ShlW(x, 32 - n), MaskFrom(n)))

\* the first operand after operand2 is made: the rotate leaves its mask in
\* tmp1
std_operand1(rotated, n, rn) == IF rotated THEN MaskFrom(n) ELSE rn

\* the case bodies of the switch on the operation, the same in the three
\* handlers: lines 2515-2563
std_alu(op, tmp1, tmp2, c) ==
    CASE op = "adc" -> AddW(AddW(tmp1, tmp2), W(0, c))
      [] op = "add" -> AddW(tmp1, tmp2)
      [] op = "and" -> AndW(tmp1, tmp2)
      [] op = "bic" -> AndW(tmp1, NotW(tmp2))
      [] op = "eor" -> XorW(tmp1, tmp2)
      [] op = "mvn" -> NotW(tmp2)
      [] op = "orr" -> AndW(tmp1, tmp2)
      [] op = "rsb" -> SubW(tmp2, tmp1)
      [] op = "rsc" -> AddW(AddW(NotW(tmp1), tmp2), W(0, c))
      [] op = "sbc" -> AddW(AddW(tmp1, NotW(tmp2)), W(0, c))
      [] op = "sub" -> SubW(tmp1, tmp2)
      [] OTHER -> tmp2

\* retval after the switch: UNDEFINED when no case is taken
std_alu_outcome(op, tmp1, tmp2, c) ==
    IF op = "none" THEN set_undef_addr
    ELSE set_arm_addr(std_alu(op, tmp1, tmp2, c))

\* the exception-return forms: lines 2583-2621 and 2864-2902
std_ret(ctx, instr, r) ==
    IF bit(instr, 20) = 0 THEN low_bits_jump(r.address)
    ELSE CASE bitrng(ctx.cpsr, 4, 0) \in {16, 31} ->
                set_unpred_addr(set_arm_addr(W(0, 8)))
           [] bitrng(ctx.cpsr, 4, 0) = 26 -> set_undef_addr
           [] OTHER ->
                IF bit(ctx.spsr, 5) = 1 THEN set_thumb_addr(r.address)
                ELSE r

std_finish(ctx, instr, isret, r) ==
    IF isret THEN std_ret(ctx, instr, r) ELSE r

ARM_CDATA_NORD_R ==
    {"arm_cdata_cmn_r", "arm_cdata_cmp_r", "arm_cdata_teq_r",
     "arm_cdata_tst_r"}

ARM_RET_R ==
    {"arm_ret_adc_r", "arm_ret_add_r", "arm_ret_and_r", "arm_ret_bic_r",
     "arm_ret_eor_r", "arm_ret_mvn_r", "arm_ret_orr_r", "arm_ret_rsb_r",
     "arm_ret_rsc_r", "arm_ret_sbc_r", "arm_ret_sub_r"}

\* the case labels of arm_core_data_std_r: lines 2515-2561
std_r_op(extra) ==
    CASE extra \in {"arm_cdata_adc_r", "arm_ret_adc_r"} -> "adc"
      [] extra \in {"arm_cdata_add_r", "arm_cdata_add_r_sp",
                    "arm_ret_add_r"} -> "add"
      [] extra \in {"arm_cdata_and_r", "arm_ret_and_r"} -> "and"
      [] extra \in {"arm_cdata_bic_r", "arm_ret_bic_r"} -> "bic"
      [] extra \in {"arm_cdata_eor_r", "arm_ret_eor_r"} -> "eor"
      [] extra \in {"arm_cdata_mvn_r", "arm_ret_mvn_r"} -> "mvn"
      [] extra \in {"arm_cdata_orr_r", "arm_ret_orr_r"} -> "orr"
      [] extra \in {"arm_cdata_rsb_r", "arm_ret_rsb_r"} -> "rsb"
      [] extra \in {"arm_cdata_rsc_r", "arm_ret_rsc_r"} -> "rsc"
      [] extra \in {"arm_cdata_sbc_r", "arm_ret_sbc_r"} -> "sbc"
      [] extra \in {"arm_cdata_sub_r", "arm_cdata_sub_r_sp",
                    "arm_ret_sub_r"} -> "sub"
      [] OTHER -> "none"

\* operand2 of arm_core_data_std_r: lines 2475-2511
std_r_operand2(ty, imm, tmp2, c) ==
    CASE ty = 0 -> ShlW(tmp2, imm)
      [] ty = 1 -> IF imm = 0 THEN W(0, 0) ELSE ShrW(tmp2, imm)
      [] ty = 2 -> AsrW(tmp2, IF imm = 0 THEN 31 ELSE imm)
      [] OTHER ->
            IF imm = 0 THEN OrW(ShrW(tmp2, 1), ShlW(W(0, c), 31))
            ELSE ror_std(tmp2, imm)

std_r_pc(ctx, instr, extra, ty, imm) ==
    std_finish(ctx, instr, extra \in ARM_RET_R,
        std_alu_outcome(std_r_op(extra),
            std_operand1(ty = 3 /\ imm # 0, imm,
                         RegPc8(ctx, bitrng(instr, 19, 16))),
            std_r_operand2(ty, imm, RegPc8(ctx, bitrng(instr, 3, 0)),
                           bit(ctx.cpsr, 29)),
            bit(ctx.cpsr, 29)))

arm_core_data_std_r(ctx, instr, extra) ==
    IF extra \in ARM_CDATA_NORD_R THEN set_addr_lin
    ELSE IF bitrng(instr, 15, 12) = 15
         THEN std_r_pc(ctx, instr, extra, bitrng(instr, 6, 5),
                       bitrng(instr, 11, 7))
         ELSE set_addr_lin

ARM_CDATA_NORD_RSHR ==
    {"arm_cdata_cmn_rshr", "arm_cdata_cmp_rshr", "arm_cdata_teq_rshr",
     "arm_cdata_tst_rshr"}

\* the case labels of arm_core_data_std_sh: lines 2693-2726
std_sh_op(extra) ==
    CASE extra = "arm_cdata_adc_rshr" -> "adc"
      [] extra = "arm_cdata_add_rshr" -> "add"
      [] extra = "arm_cdata_and_rshr" -> "and"
      [] extra = "arm_cdata_bic_rshr" -> "bic"
      [] extra = "arm_cdata_eor_rshr" -> "eor"
      [] extra = "arm_cdata_mvn_rshr" -> "mvn"
      [] extra = "arm_cdata_orr_rshr" -> "orr"
      [] extra = "arm_cdata_rsb_rshr" -> "rsb"
      [] extra = "arm_cdata_rsc_rshr" -> "rsc"
      [] extra = "arm_cdata_sbc_rshr" -> "sbc"
      [] extra = "arm_cdata_sub_rshr" -> "sub"
      [] OTHER -> "none"

\* operand2 of arm_core_data_std_sh: lines 2664-2689, tmp3 = (Rs) & 0x1f
std_sh_operand2(ty, tmp3, tmp2) ==
    IF tmp3 = 0 THEN tmp2
    ELSE CASE ty = 0 -> ShlW(tmp2, tmp3)
           [] ty = 1 -> ShrW(tmp2, tmp3)
           [] ty = 2 -> AsrW(tmp2, tmp3)
           [] OTHER -> ror_std(tmp2, tmp3)

std_sh_pc(ctx, instr, extra, ty, tmp3) ==
    set_unpred_addr(
        std_alu_outcome(std_sh_op(extra),
            std_operand1(ty = 3 /\ tmp3 # 0, tmp3,
                         RegPc8(ctx, bitrng(instr, 19, 16))),
            std_sh_operand2(ty, tmp3, RegPc8(ctx, bitrng(instr, 3, 0))),
            bit(ctx.cpsr, 29)))

arm_core_data_std_sh(ctx, instr, extra) ==
    IF extra \in ARM_CDATA_NORD_RSHR THEN set_addr_lin
    ELSE IF bitrng(instr, 15, 12) = 15
         THEN std_sh_pc(ctx, instr, extra, bitrng(instr, 6, 5),
                        RegPc8(ctx, bitrng(instr, 11, 8)).lo % 32)
         ELSE set_addr_lin

ARM_CDATA_NORD_IMM ==
    {"arm_cdata_cmn_imm", "arm_cdata_cmp_imm", "arm_cdata_teq_imm",
     "arm_cdata_tst_imm"}

ARM_RET_IMM ==
    {"arm_ret_adc_imm", "arm_ret_add_imm", "arm_ret_bic_imm",
     "arm_ret_eor_imm", "arm_ret_mov_imm", "arm_ret_mvn_imm",
     "arm_ret_rsb_imm", "arm_ret_rsc_imm", "arm_ret_sbc_imm",
     "arm_ret_sub_imm"}

\* the case labels of arm_core_data_std_i: lines 2784-2843
std_i_op(extra) ==
    CASE extra \in {"arm_cdata_adc_imm", "arm_ret_adc_imm"} -> "adc"
      [] extra \in {"arm_cdata_add_imm", "arm_cdata_add_imm_sp",
                    "arm_ret_add_imm"} -> "add"
      [] extra = "arm_cdata_adr_lbla" -> "adr_lbla"
      [] extra = "arm_cdata_adr_lblb" -> "adr_lblb"
      [] extra = "arm_cdata_and_imm" -> "and"
      [] extra \in {"arm_cdata_bic_imm", "arm_ret_bic_imm"} -> "bic"
      [] extra \in {"arm_cdata_eor_imm", "arm_ret_eor_imm"} -> "eor"
      [] extra \in {"arm_cdata_mov_imm", "arm_ret_mov_imm"} -> "mov"
      [] extra \in {"arm_cdata_mvn_imm", "arm_ret_mvn_imm"} -> "mvn"
      [] extra = "arm_cdata_orr_imm" -> "orr"
      [] extra \in {"arm_cdata_rsb_imm", "arm_ret_rsb_imm"} -> "rsb"
      [] extra \in {"arm_cdata_rsc_imm", "arm_ret_rsc_imm"} -> "rsc"
      [] extra \in {"arm_cdata_sbc_imm", "arm_ret_sbc_imm"} -> "sbc"
      [] extra \in {"arm_cdata_sub_imm", "arm_cdata_sub_imm_sp",
                    "arm_ret_sub_imm"} -> "sub"
      [] OTHER -> "none"

\* operand2 of arm_core_data_std_i: lines 2769-2780, tmp3 = the rotation
std_i_operand2(imm8, tmp3) ==
    IF tmp3 = 0 THEN WordOf(imm8) ELSE ror_std(WordOf(imm8), tmp3)

\* the switch on the operation: ADR takes r15 as it is stored, aligned
std_i_outcome(op, r15, tmp1, tmp2, c) ==
    CASE op = "adr_lbla" -> set_arm_addr(AddW(AndW(r15, MaskFrom(2)), tmp2))
      [] op = "adr_lblb" -> set_arm_addr(SubW(AndW(r15, MaskFrom(2)), tmp2))
      [] OTHER -> std_alu_outcome(op, tmp1, tmp2, c)

std_i_pc(ctx, instr, extra, tmp3) ==
    std_finish(ctx, instr, extra \in ARM_RET_IMM,
        std_i_outcome(std_i_op(extra), Reg(ctx, 15),
            std_operand1(tmp3 # 0, tmp3, RegPc8(ctx, bitrng(instr, 19, 16))),
            std_i_operand2(bitrng(instr, 7, 0), tmp3),
            bit(ctx.cpsr, 29)))

arm_core_data_std_i(ctx, instr, extra) ==
    IF extra \in ARM_CDATA_NORD_IMM THEN set_addr_lin
    ELSE IF bitrng(instr, 15, 12) = 15
         THEN std_i_pc(ctx, instr, extra, (bitrng(instr, 11, 8) * 2) % 32)
         ELSE set_addr_lin

(***************************************************************************)
(* Processor mode and target memory                                        *)
(***************************************************************************)
\* instr_util.h: the current mode (CPSR bits 4-0) is one of the modes
\* given; usr = 0x10, fiq = 0x11, mon = 0x16, hyp = 0x1a, sys = 0x1f
check_proc_mode(ctx, modes) == bitrng(ctx.cpsr, 4, 0) \in modes

\* *((unsigned int *)addr): a word of target memory; the content of an
\* address outside the image is whatever the bus returns
mem_read(mem, addr, ub) ==
    IF addr \in DOMAIN mem THEN mem[addr] ELSE ub.junk

(***************************************************************************)
(* arm_core_ldstm: load and store multiple, push and pop                   *)
(***************************************************************************)
\* the number of bits set in the n low bits of x: lines 3432-3436
RECURSIVE BitCount(_, _)
BitCount(x, n) ==
    IF n = 0 THEN 0 ELSE (x % 2) + BitCount(x \div 2, n - 1)

\* a write-back that always counts upwards
ldstm_wback_up(ctx, instr, tmp4) == AddW(Reg(ctx, 15), W(0, 4 * tmp4))

\* the written-back base, tmp4 registers in the list: lines 3444-3451
ldstm_wback(ctx, instr, tmp4) ==
    IF bit(instr, 23) = 1
    THEN AddW(Reg(ctx, 15), W(0, 4 * tmp4))
    ELSE SubW(Reg(ctx, 15), W(0, 4 * tmp4))

\* the mode checks of the forms with bit 22 set: lines 3470-3479
ldstm_mode(ctx, r) ==
    IF check_proc_mode(ctx, {26}) THEN set_undef_addr
    ELSE UnpredIf(check_proc_mode(ctx, {16, 31}), r)

\* store, or load of user registers: lines 3441-3480
ldstm_store(ctx, instr, tmp1, tmp4) ==
    UnpredIf(tmp1 = 13 /\ (bit(instr, 13) = 1 \/ tmp4 < 2),
        UnpredIf(tmp1 = 15,
            IF tmp1 = 15 /\ bit(instr, 21) = 1
            THEN set_arm_addr(ldstm_wback(ctx, instr, tmp4))
            ELSE set_addr_lin))

\* the address the PC is loaded from: lines 3501-3519
ldstm_pc_slot(instr, base, tmp4) ==
    CASE bitrng(instr, 24, 23) = 0 -> SubW(base, W(0, 4 * (tmp4 - 1)))
      [] bitrng(instr, 24, 23) = 1 -> AddW(base, W(0, 4 * (tmp4 - 1)))
      [] bitrng(instr, 24, 23) = 2 -> SubW(base, W(0, 4 * tmp4))
      [] OTHER -> AddW(base, W(0, 4 * tmp4))

\* the exception-return step on the loaded value: lines 3535-3548
ldstm_spsr(ctx, instr, r) ==
    IF bit(instr, 20) = 1 \/ bit(instr, 22) = 1
    THEN (IF bit(ctx.spsr, 5) = 1 THEN set_thumb_addr(r.address)
          ELSE set_arm_addr(AndW(r.address, MaskFrom(2))))
    ELSE r

\* load: lines 3484-3553
ldstm_load_value(ctx, mem, instr, tmp1, tmp4, ub) ==
    IF tmp1 = 15 /\ bit(instr, 21) = 1
    THEN set_arm_addr(ldstm_wback(ctx, instr, tmp4))
    ELSE IF bit(instr, 15) = 1
         THEN ldstm_spsr(ctx, instr,
                low_bits_jump(
                    mem_read(mem, ldstm_pc_slot(instr, Reg(ctx, tmp1), tmp4),
                             ub)))
         ELSE set_addr_lin

\* the checks after the load: lines 3555-3566
ldstm_load(ctx, mem, instr, tmp1, tmp4, ub) ==
    UnpredIf((tmp1 = 13 /\ (bit(instr, 13) = 1 \/ tmp4 < 2)) \/ tmp4 < 1,
        UnpredIf(tmp1 = 15,
                 ldstm_load_value(ctx, mem, instr, tmp1, tmp4, ub)))

ldstm_multiple(ctx, mem, instr, tmp1, tmp4, ub) ==
    IF bit(instr, 20) = 0 \/ (bit(instr, 22) = 1 /\ bit(instr, 15) = 0)
    THEN (IF bit(instr, 22) = 1
          THEN ldstm_mode(ctx, ldstm_store(ctx, instr, tmp1, tmp4))
          ELSE ldstm_store(ctx, instr, tmp1, tmp4))
    ELSE (IF bit(instr, 22) = 1 /\ bit(instr, 15) = 1
          THEN ldstm_mode(ctx, ldstm_load(ctx, mem, instr, tmp1, tmp4, ub))
          ELSE ldstm_load(ctx, mem, instr, tmp1, tmp4, ub))

arm_core_ldstm(ctx, mem, instr, extra, ub) ==
    CASE extra = "arm_cldstm_pop_r" ->
            IF bitrng(instr, 15, 12) = 15
            THEN set_arm_addr(mem_read(mem, Reg(ctx, 13), ub))
            ELSE UnpredIf(bitrng(instr, 15, 12) = 13, set_addr_lin)
      [] extra = "arm_cldstm_push_r" ->
            UnpredIf(bitrng(instr, 15, 12) = 13, set_addr_lin)
      [] OTHER ->
            ldstm_multiple(ctx, mem, instr, bitrng(instr, 19, 16),
                           BitCount(instr.lo, 16), ub)

(***************************************************************************)
(* arm_core_status: CPS and the banked-register forms of MSR and MRS       *)
(***************************************************************************)
\* instr_util.h: the current mode, CPSR bits 4-0.  The modes are usr 0x10,
\* fiq 0x11, irq 0x12, svc 0x13, mon 0x16, abt 0x17, hyp 0x1a, und 0x1b,
\* sys 0x1f.
get_proc_mode(ctx) == bitrng(ctx.cpsr, 4, 0)

\* CPS with a mode change: the count "unp" of lines 4663-4712 is not zero.
\* env holds what the handler reads from the processor and not from the
\* snapshot: the security state, NSACR bit 19, SCR bit 0 and the banked
\* registers.
cps_mode_unp(ctx, tmp1, env) ==
    CASE tmp1 = 22 -> env.secure = 0
      [] tmp1 = 17 -> env.nsacr19 = 1 /\ env.secure = 0
      [] tmp1 = 26 ->
            IF env.secure # 0 /\ ~check_proc_mode(ctx, {22}) THEN TRUE
            ELSE IF check_proc_mode(ctx, {22}) THEN env.scr0 = 0
                 ELSE ~check_proc_mode(ctx, {26})
      [] tmp1 \in {18, 19, 23, 27, 31} -> FALSE
      [] OTHER -> TRUE

\* CPS: lines 4627-4712; the test of line 4641 assigns 0 to tmp2 in its
\* second operand, which is then false
status_cps(ctx, instr, env) ==
    IF check_proc_mode(ctx, {16}) THEN set_addr_lin
    ELSE IF bit(instr, 17) = 0 /\ bitrng(instr, 4, 0) # 0
         THEN set_unpred_addr(set_addr_lin)
    ELSE IF bitrng(instr, 19, 18) = 1 THEN set_unpred_addr(set_addr_lin)
    ELSE IF bitrng(instr, 8, 6) = 0 /\ bit(instr, 19) = 1
         THEN set_unpred_addr(set_addr_lin)
    ELSE IF bitrng(instr, 8, 6) # 0 /\ bit(instr, 19) = 0
         THEN set_unpred_addr(set_addr_lin)
    ELSE UnpredIf(bit(instr, 17) = 1
                    /\ cps_mode_unp(ctx, bitrng(instr, 4, 0), env),
                  set_addr_lin)

\* the mode whose register is accessed, from the five bits M:M1 (tmp1):
\* lines 4722-4816
banked_mode(tmp1) ==
    CASE tmp1 \div 8 = 0 -> 16
      [] tmp1 \div 8 = 1 -> 17
      [] tmp1 \div 8 = 2 ->
            CASE (tmp1 % 8) \div 2 = 0 -> 18
              [] (tmp1 % 8) \div 2 = 1 -> 19
              [] (tmp1 % 8) \div 2 = 2 -> 23
              [] OTHER -> 27
      [] OTHER ->
            CASE tmp1 % 8 \in {4, 5} -> 22
              [] tmp1 % 8 \in {6, 7} -> 26
              [] OTHER -> tmp1

\* the register accessed (tmp2), 0 for a bad register: lines 4722-4816
banked_reg_code(tmp1) ==
    CASE tmp1 \div 8 \in {0, 1} ->
            IF (tmp1 % 8) + 8 = 15 THEN 0 ELSE (tmp1 % 8) + 8
      [] tmp1 \div 8 = 3 /\ tmp1 % 8 < 4 -> 0
      [] OTHER -> IF tmp1 % 2 = 1 THEN 13 ELSE 14

\* line 4817: the SPSR in place of the link register when bit 22 is set
banked_reg(instr, tmp1) ==
    IF banked_reg_code(tmp1) = 14 /\ bit(instr, 22) = 1 THEN 16
    ELSE banked_reg_code(tmp1)

\* the access is refused, "unp++; retval = set_addr_lin()": lines 4829-5024
banked_refused(proc_mode, tmp1, env) ==
    CASE proc_mode = 16 -> TRUE
      [] proc_mode = 17 ->
            (env.nsacr19 = 1 /\ env.secure = 0) \/ tmp1 \in {17, 26, 22}
      [] proc_mode \in {18, 19, 23, 27} ->
            \/ proc_mode = tmp1
            \/ tmp1 = 26
            \/ (tmp1 = 22 /\ env.secure = 0)
            \/ (tmp1 = 17 /\ env.nsacr19 = 1 /\ env.secure = 0)
      [] proc_mode = 22 -> FALSE
      [] proc_mode = 26 ->
            tmp1 = proc_mode \/ tmp1 = 22 \/ (tmp1 = 17 /\ env.nsacr19 = 1)
      [] proc_mode = 31 -> tmp1 = proc_mode \/ tmp1 = 26 \/ tmp1 = 22
      [] OTHER -> TRUE

\* the access is made: MSR writes the banked register, MRS reads it into
\* Rd (tmp4 = get_mode_reg(tmp1, tmp2))
banked_access(instr, extra, env) ==
    IF extra = "arm_cstat_msr_b" THEN set_addr_lin
    ELSE IF bitrng(instr, 15, 12) = 15
         THEN set_unpred_addr(set_arm_addr(env.banked))
         ELSE set_addr_lin

status_banked(ctx, instr, extra, tmp1, env) ==
    IF banked_reg(instr, tmp1) = 0 THEN set_unpred_addr(set_addr_lin)
    ELSE IF banked_refused(get_proc_mode(ctx), banked_mode(tmp1), env)
         THEN set_unpred_addr(set_addr_lin)
         ELSE banked_access(instr, extra, env)

arm_core_status(ctx, instr, extra, env) ==
    IF extra = "arm_cstat_cps" THEN status_cps(ctx, instr, env)
    ELSE status_banked(ctx, instr, extra,
                       bitrng(instr, 19, 16) + (16 * bit(instr, 8)), env)

(***************************************************************************)
(* arm_coproc: coprocessor instructions                                    *)
(***************************************************************************)
\* the switch on the sub-type: lines 755-854
coproc_switch(instr, extra) ==
    CASE extra \in {"arm_cop_mcrr2", "arm_cop_mcrr"} ->
            UnpredIf(bitrng(instr, 19, 16) = 15 \/ bitrng(instr, 15, 12) = 15,
                     set_addr_lin)
      [] extra \in {"arm_cop_mcr2", "arm_cop_mcr"} ->
            UnpredIf(bitrng(instr, 15, 12) \in {13, 15}, set_addr_lin)
      [] extra \in {"arm_cop_ldc2", "arm_cop_ldc", "arm_cop_ldc2_pc",
                    "arm_cop_ldc_pc", "arm_cop_stc2", "arm_cop_stc"} ->
            IF bitrng(instr, 24, 21) # 0
            THEN set_unpred_addr(set_addr_lin)
            ELSE set_undef_addr
      [] extra \in {"arm_cop_mrrc2", "arm_cop_mrrc", "arm_cop_mrc2",
                    "arm_cop_mrc", "arm_cop_cdp2", "arm_cop_cdp"} ->
            set_unpred_addr(set_addr_lin)
      [] OTHER -> set_undef_addr

\* a handler without the test of the reserved coprocessor numbers
arm_coproc_noreserved(ctx, instr, extra) == coproc_switch(instr, extra)

arm_coproc(ctx, instr, extra) ==
    IF bitrng(instr, 11, 8) \in {8, 9, 12, 13} THEN set_undef_addr
    ELSE coproc_switch(instr, extra)

(***************************************************************************)
(* arm_vfp_ldst_ext: VLDM, VSTM, VLDR, VSTR, VPUSH, VPOP                   *)
(***************************************************************************)
\* instr_util.h: the bits of the word selected by the mask 0xd << 21,
\* gathered: P, U and W
bits_puw(instr) ==
    bit(instr, 24) * 4 + bit(instr, 23) * 2 + bit(instr, 21)

\* the switch on PUW with Rn = PC: lines 5437-5459; it has no default, so
\* tmp4 is not assigned for PUW 0, 4 and 6
vfp_ext_base(tmp1, tmp3, tmp2, ub) ==
    CASE tmp1 = 2 -> tmp3
      [] tmp1 = 3 -> AddW(tmp3, tmp2)
      [] tmp1 = 5 -> SubW(tmp3, tmp2)
      [] tmp1 \in {1, 7} -> tmp3
      [] OTHER -> ub.junk

\* VLDM and VSTM: lines 5426-5468 with the test of und at line 5470
vfp_ext_multiple(ctx, instr, tmp1, ub) ==
    IF tmp1 \in {1, 7} THEN set_undef_addr
    ELSE IF bitrng(instr, 19, 16) = 15
         THEN set_arm_addr(vfp_ext_base(tmp1, Reg(ctx, 15),
                                        W(0, bitrng(instr, 7, 0) * 4), ub))
         ELSE set_addr_lin

arm_vfp_ldst_ext(ctx, instr, extra, ub) ==
    CASE extra \in {"arm_vldstx_vldr_d_imm", "arm_vldstx_vldr_s_imm",
                    "arm_vldstx_vstr_d_imm", "arm_vldstx_vstr_s_imm"} ->
            set_addr_lin
      [] extra \in {"arm_vldstx_vpop32", "arm_vldstx_vpop64",
                    "arm_vldstx_vpush32", "arm_vldstx_vpush64"} ->
            UnpredIf(bitrng(instr, 7, 0) = 0, set_addr_lin)
      [] extra \in {"arm_vldstx_vldm32", "arm_vldstx_vldm64",
                    "arm_vldstx_vstm32", "arm_vldstx_vstm64"} ->
            vfp_ext_multiple(ctx, instr, bits_puw(instr), ub)
      [] OTHER -> set_undef_addr

(***************************************************************************)
(* arm_core_ldst: LDR, STR, LDRB, STRB with an immediate or a shifted      *)
(* register offset                                                         *)
(***************************************************************************)
\* the offset register shifted: lines 3164-3201
ldst_operand2(ty, tmp3, tmp2, c) ==
    CASE ty = 0 -> ShlW(tmp2, tmp3)
      [] ty = 1 -> IF tmp3 = 0 THEN W(0, 0) ELSE ShrW(tmp2, tmp3)
      [] ty = 2 -> AsrW(tmp2, IF tmp3 = 0 THEN 31 ELSE tmp3)
      [] OTHER ->
            IF tmp3 = 0 THEN OrW(ShrW(tmp2, 1), ShlW(W(0, c), 31))
            ELSE LogOrW(AndW(ShrW(tmp2, tmp3), NotW(MaskFrom(tmp3))),
                        AndW(ShlW(tmp2, 32 - tmp3), MaskFrom(tmp3)))

\* the offset tmp2: lines 3153-3208; Rm is read as it is stored
ldst_offset(ctx, instr) ==
    IF bit(instr, 25) = 1
    THEN ldst_operand2(bitrng(instr, 6, 5), bitrng(instr, 11, 7),
                       Reg(ctx, bitrng(instr, 3, 0)), bit(ctx.cpsr, 29))
    ELSE WordOf(bitrng(instr, 11, 0))

\* (Rn) + offset or (Rn) - offset by the U bit
ldst_addr(ctx, instr, tmp2) ==
    IF bit(instr, 23) = 1 THEN AddW(Reg(ctx, bitrng(instr, 19, 16)), tmp2)
    ELSE SubW(Reg(ctx, bitrng(instr, 19, 16)), tmp2)

\* the byte or the word of target memory at tmp3 (little-endian)
ldst_load(mem, instr, tmp3, ub) ==
    IF bit(instr, 22) = 1 THEN W(0, mem_read(mem, tmp3, ub).lo % 256)
    ELSE mem_read(mem, tmp3, ub)

\* post-indexing: lines 3217-3257
ldst_post(ctx, mem, instr, tmp2, ub) ==
    set_arm_addr(
        IF bitrng(instr, 19, 16) = 15 THEN ldst_addr(ctx, instr, tmp2)
        ELSE IF bit(instr, 20) = 1
             THEN ldst_load(mem, instr, Reg(ctx, bitrng(instr, 19, 16)), ub)
             ELSE Reg(ctx, bitrng(instr, 15, 12)))

\* offset addressing: lines 3258-3303
ldst_offs(ctx, mem, instr, tmp2, ub) ==
    IF bitrng(instr, 15, 12) = 15
    THEN set_arm_addr(
            IF bit(instr, 20) = 1
            THEN ldst_load(mem, instr, ldst_addr(ctx, instr, tmp2), ub)
            ELSE Reg(ctx, 15))
    ELSE set_addr_lin

\* pre-indexing, tmp4: lines 3304-3339; the address tmp3, not the index of
\* Rn, is compared with 15
ldst_pre_value(ctx, mem, instr, tmp3, ub) ==
    IF bitrng(instr, 15, 12) = 15 /\ bit(instr, 20) = 1
    THEN ldst_load(mem, instr, tmp3, ub)
    ELSE IF tmp3 = W(0, 15) THEN tmp3 ELSE Reg(ctx, bitrng(instr, 15, 12))

\* pre-indexing, retval: lines 3340-3349
ldst_pre(ctx, instr, tmp4) ==
    IF tmp4 = Reg(ctx, bitrng(instr, 15, 12)) THEN set_addr_lin
    ELSE set_arm_addr(tmp4)

\* the switch on P and W: lines 3215-3354
ldst_pc(ctx, mem, instr, tmp2, ub) ==
    CASE bit(instr, 24) = 0 /\ bit(instr, 21) = 0 ->
            ldst_post(ctx, mem, instr, tmp2, ub)
      [] bit(instr, 24) # bit(instr, 21) ->
            ldst_offs(ctx, mem, instr, tmp2, ub)
      [] OTHER ->
            ldst_pre(ctx, instr,
                ldst_pre_value(ctx, mem, instr,
                               ldst_addr(ctx, instr, tmp2), ub))

\* the counter unp before the state is selected: lines 3149, 3157-3160
ldst_unp(instr) ==
    \/ bit(instr, 21) = 1 /\ bitrng(instr, 19, 16) = bitrng(instr, 15, 12)
    \/ /\ 15 \in {bitrng(instr, 19, 16), bitrng(instr, 15, 12)}
       /\ bit(instr, 25) = 1
       /\ \/ bit(instr, 21) = 1 /\ bitrng(instr, 15, 12) = 15
          \/ bitrng(instr, 3, 0) = 15

\* the state from the low bits of the address: lines 3361-3372
ldst_state(r) ==
    IF r.address # LIN_ADDR THEN low_bits_jump(r.address) ELSE r

arm_core_ldst(ctx, mem, instr, ub) ==
    UnpredIf(ldst_unp(instr),
        ldst_state(
            IF 15 \in {bitrng(instr, 19, 16), bitrng(instr, 15, 12)}
            THEN ldst_pc(ctx, mem, instr, ldst_offset(ctx, instr), ub)
            ELSE set_addr_lin))

(***************************************************************************)
(* arm_core_exc: exception generating and exception return instructions    *)
(***************************************************************************)
\* RFE outside Hyp mode, lines 3043-3087: the new PC is read at an offset
\* from the raw snapshot value of Rn selected by P and U (bits 24-23).  The
\* ThumbEE test of line 3083 parses as cpsr & (0x01000020 == 0x01000020),
\* which is bit 0 of CPSR.
exc_rfe_word(mem, instr, tmp2, ub) ==
    CASE bitrng(instr, 24, 23) = 0 -> mem_read(mem, SubW(tmp2, W(0, 4)), ub)
      [] bitrng(instr, 24, 23) = 1 -> mem_read(mem, tmp2, ub)
      [] bitrng(instr, 24, 23) = 2 ->
            mem_read(mem, SubW(SubW(tmp2, W(0, 4)), W(0, 8)), ub)
      [] OTHER -> mem_read(mem, AddW(AddW(tmp2, W(0, 4)), W(0, 4)), ub)

exc_rfe(ctx, mem, instr, ub) ==
    UnpredIf(check_proc_mode(ctx, {16}) /\ bit(ctx.cpsr, 0) = 1,
             set_arm_addr(exc_rfe_word(mem, instr,
                                       Reg(ctx, bitrng(instr, 19, 16)), ub)))

\* SRS outside Hyp mode: lines 3098-3118
exc_srs(ctx, instr, env) ==
    UnpredIf(\/ check_proc_mode(ctx, {16, 31})
             \/ bitrng(instr, 4, 0) = 26
             \/ (check_proc_mode(ctx, {22}) /\ env.secure = 0)
             \/ (check_proc_mode(ctx, {17}) /\ env.cp16 = 1
                 /\ env.secure = 0),
             set_addr_lin)

\* HVC: lines 2952-2980; the inner test for User mode is made in a branch
\* that User mode does not reach
exc_hvc(ctx, env) ==
    IF env.secure # 0 THEN set_undef_addr
    ELSE IF check_proc_mode(ctx, {16}) THEN set_undef_addr
    ELSE IF env.scr8 = 0
         THEN LinIf(check_proc_mode(ctx, {16}))
         ELSE set_addr_lin

\* SMC: lines 2981-3007
exc_smc(ctx, env) ==
    IF check_proc_mode(ctx, {16}) THEN set_undef_addr
    ELSE IF env.hcr19 = 1 /\ env.secure = 0 THEN set_addr_lin
    ELSE IF env.scr7 = 1 THEN LinIf(env.secure # 0)
    ELSE set_addr_lin

\* lines 2919-3125.  env holds what the handler reads from the processor
\* and not from the snapshot: the security state, SCR bits 8 and 7, HCR
\* bit 19, ELR_hyp and the access right to coprocessor 16.
arm_core_exc(ctx, mem, instr, extra, env, ub) ==
    CASE extra = "arm_exc_eret" ->
            IF check_proc_mode(ctx, {26})
            THEN set_unpred_addr(set_arm_addr(env.elr_hyp))
            ELSE IF check_proc_mode(ctx, {16, 31}) THEN set_undef_addr
                 ELSE set_arm_addr(Reg(ctx, 14))
      [] extra = "arm_exc_bkpt" -> set_addr_lin
      [] extra = "arm_exc_hvc" -> exc_hvc(ctx, env)
      [] extra = "arm_exc_smc" -> exc_smc(ctx, env)
      [] extra = "arm_exc_svc" -> set_addr_lin
      [] extra = "arm_exc_udf" -> set_undef_addr
      [] extra = "arm_exc_rfe" ->
            IF check_proc_mode(ctx, {26}) THEN set_undef_addr
            ELSE exc_rfe(ctx, mem, instr, ub)
      [] extra = "arm_exc_srs" ->
            IF check_proc_mode(ctx, {26}) THEN set_undef_addr
            ELSE exc_srs(ctx, instr, env)
      [] OTHER -> set_undef_addr

(***************************************************************************)
(* arm_core_ldstrex: the exclusive loads and stores                        *)
(***************************************************************************)
\* the value loaded into the PC, read at the word-aligned (Rn): lines
\* 3838-3865
ldstrex_load(mem, instr, extra, tmp1, ub) ==
    CASE extra = "arm_sync_ldrexb" -> W(0, mem_read(mem, tmp1, ub).lo % 256)
      [] extra = "arm_sync_ldrexh" -> W(0, mem_read(mem, tmp1, ub).lo)
      [] extra = "arm_sync_ldrexd" /\ bitrng(instr, 15, 12) # 15 ->
            mem_read(mem, AddW(tmp1, W(0, 4)), ub)
      [] OTHER -> mem_read(mem, tmp1, ub)

\* the count "unp" of a store is not zero: lines 3876-3895
ldstrex_store_unp(instr, extra) ==
    \/ bitrng(instr, 19, 16) = 15
    \/ bitrng(instr, 15, 12) = bitrng(instr, 19, 16)
    \/ bitrng(instr, 3, 0) = 15
    \/ bitrng(instr, 15, 12) = 15
    \/ (extra = "arm_sync_strexd"
        /\ (bitrng(instr, 3, 0) = 14 \/ bit(instr, 0) = 1))

\* lines 3813-3906: a store returns set_arm_addr(0)
arm_core_ldstrex(ctx, mem, instr, extra, ub) ==
    IF bit(instr, 20) = 1
    THEN IF \/ bitrng(instr, 15, 12) = 15
            \/ (bitrng(instr, 15, 12) = 14 /\ extra = "arm_sync_ldrexd")
         THEN set_unpred_addr(set_arm_addr(
                ldstrex_load(mem, instr, extra,
                             AndW(Reg(ctx, bitrng(instr, 19, 16)),
                                  MaskFrom(2)), ub)))
         ELSE UnpredIf(bitrng(instr, 19, 16) = 15, set_addr_lin)
    ELSE UnpredIf(ldstrex_store_unp(instr, extra), set_arm_addr(W(0, 0)))

(***************************************************************************)
(* The decode table and the dispatcher                                     *)
(***************************************************************************)
Entry(d, m, e, f) == [data |-> d, mask |-> m, extra |-> e, decoder |-> f]

\* An excerpt of ARM_decode_table_data.h in table order: overlapping
\* patterns are listed with the more specific one first.
\*   0xfa000000/0xfe000000 BLX (label)   0x012fff10/0x0ffffff0 BX
\*   0x012fff30/0x0ffffff0 BLX (reg)     0x012fff20/0x0ffffff0 BXJ
\*   0x01a0f000/0x0fe0f070 MOV/LSL, Rd = PC
\*   0x01a0f060/0x0fe0fff0 RRX, Rd = PC  0x01a0f060/0x0fe0f070 ROR, Rd = PC
\*   0x01a00000/0x0fe00070 MOV/LSL       0x01a00060/0x0fe00070 ROR/RRX
\*   0x0a000000/0x0f000000 B             0x0b000000/0x0f000000 BL
ARM_decode_table ==
    << Entry(W(64000, 0), W(65024, 0), "arm_bra_blx_lbl", "arm_branch"),
       Entry(W(303, 65296), W(4095, 65520), "arm_bra_bx_r", "arm_branch"),
       Entry(W(303, 65328), W(4095, 65520), "arm_bra_blx_r", "arm_branch"),
       Entry(W(303, 65312), W(4095, 65520), "arm_bra_bxj_r", "arm_branch"),
       Entry(W(416, 61440), W(4064, 61552), "arm_mux_lsl_i_mov_pc", "arm_mux"),
       Entry(W(416, 61536), W(4064, 65520), "arm_ret_rrx_pc",
             "arm_core_data_bit"),
       Entry(W(416, 61536), W(4064, 61552), "arm_ret_ror_imm",
             "arm_core_data_bit"),
       Entry(W(416, 0), W(4064, 112), "arm_mux_lsl_i_mov", "arm_mux"),
       Entry(W(416, 96), W(4064, 112), "arm_mux_ror_i_rrx", "arm_mux"),
       Entry(W(2560, 0), W(3840, 0), "arm_bra_b_lbl", "arm_branch"),
       Entry(W(2816, 0), W(3840, 0), "arm_bra_bl_lbl", "arm_branch") >>

\* ARM_decode_table[i].decoder(instr, ARM_decode_table[i].extra)
call_decoder(f, ctx, instr, extra, ub) ==
    CASE f = "arm_branch" -> arm_branch(ctx, instr, extra)
      [] f = "arm_mux" -> arm_mux(ctx, instr, extra, ub)
      [] f = "arm_core_data_bit" -> arm_core_data_bit(ctx, instr, extra, ub)
      [] f = "arm_core_data_std_r" -> arm_core_data_std_r(ctx, instr, extra)
      [] f = "arm_core_data_std_sh" -> arm_core_data_std_sh(ctx, instr, extra)
      [] f = "arm_core_data_std_i" -> arm_core_data_std_i(ctx, instr, extra)
      [] f = "arm_core_data_mac" -> arm_core_data_mac(ctx, instr, extra, ub)
      [] f = "arm_core_data_macd" -> arm_core_data_macd(ctx, instr, extra, ub)
      [] f = "arm_core_data_div" -> arm_core_data_div(ctx, instr, extra, ub)
      [] f = "arm_core_data_sat" -> arm_core_data_sat(ctx, instr, extra, ub)
      [] f = "arm_core_data_pack" -> arm_core_data_pack(ctx, instr, extra, ub)
      [] f = "arm_core_data_par" -> arm_core_data_par(ctx, instr, extra, ub)
      [] f = "arm_vfp_ldst_ext" -> arm_vfp_ldst_ext(ctx, instr, extra, ub)
      [] OTHER -> set_undef_addr

entry_matches(tbl, i, instr) == AndW(instr, tbl[i].mask) = tbl[i].data

\* the scan without the "break" after the call of the decoder
RECURSIVE dispatch_scan_nobreak(_, _, _)
dispatch_scan_nobreak(tbl, instr, i) ==
    IF i > Len(tbl) THEN [invoked |-> << >>, compared |-> Len(tbl)]
    ELSE [invoked |-> (IF entry_matches(tbl, i, instr) THEN <<i>>
                       ELSE << >>)
                      \o dispatch_scan_nobreak(tbl, instr, i + 1).invoked,
          compared |-> Len(tbl)]

\* the for loop of ARM_decoder_dispatch from index i on: the entries whose
\* decoder is invoked, and the number of entries compared
RECURSIVE dispatch_scan(_, _, _)
dispatch_scan(tbl, instr, i) ==
    IF i > Len(tbl) THEN [invoked |-> << >>, compared |-> Len(tbl)]
    ELSE IF entry_matches(tbl, i, instr)
         THEN [invoked |-> <<i>>, compared |-> i]
         ELSE dispatch_scan(tbl, instr, i + 1)

\* the result with retval preset to "linear" instead of UNDEFINED
dispatch_result_lin(tbl, ctx, instr, ub, s) ==
    [invoked  |-> s.invoked,
     compared |-> s.compared,
     retval   |-> IF Len(s.invoked) = 0 THEN set_addr_lin
                  ELSE call_decoder(tbl[s.invoked[Len(s.invoked)]].decoder,
                                    ctx, instr,
                                    tbl[s.invoked[Len(s.invoked)]].extra, ub)]

\* retval after the loop: set_undef_addr() unless a decoder was invoked,
\* then the value returned by the decoder invoked last
dispatch_result(tbl, ctx, instr, ub, s) ==
    [invoked  |-> s.invoked,
     compared |-> s.compared,
     retval   |-> IF Len(s.invoked) = 0 THEN set_undef_addr
                  ELSE call_decoder(tbl[s.invoked[Len(s.invoked)]].decoder,
                                    ctx, instr,
                                    tbl[s.invoked[Len(s.invoked)]].extra, ub)]

ARM_decoder_dispatch(tbl, ctx, instr, ub) ==
    dispatch_result(tbl, ctx, instr, ub, dispatch_scan(tbl, instr, 1))

(***************************************************************************)
(* Inputs: register snapshots, memory images and instruction words         *)
(***************************************************************************)
NumRegVals == 5
NumCpsrVals == 6

\* register contents: Thumb-looking, ARM-looking, bit 1 set, all ones, zero
RegVal(i) ==
    CASE i = 0 -> W(0, 4097)
      [] i = 1 -> W(0, 8192)
      [] i = 2 -> W(0, 4098)
      [] i = 3 -> W(Half - 1, Half - 1)
      [] i = 4 -> W(0, 0)
      [] i = 5 -> W(32768, 16)
      [] OTHER -> W((i * 4099) % Half, (i * 8191) % Half)

\* program counter values: 0x00008000 and 0xfffffffc
PcVal(p) == IF p = 0 THEN W(0, 32768) ELSE W(Half - 1, Half - 4)

\* processor modes usr, svc, hyp, sys (CPSR bits 4-0)
ModeVal(i) ==
    CASE i % 4 = 0 -> 16 [] i % 4 = 1 -> 19 [] i % 4 = 2 -> 26 [] OTHER -> 31

\* status words: flags N Z C V in bits 31-28, mode in bits 4-0
CpsrVal(i) == W(((i * 7) % 16) * 4096, ModeVal(i))

\* saved status word: T bit (bit 5), mode svc
SpsrVal(t) == W(0, 19 + 32 * t)

Snapshot(a, c, p) ==
    [storage |-> [r \in 0..15 |->
                    IF r = 15 THEN PcVal(p) ELSE RegVal((a + r) % NumRegVals)],
     cpsr |-> CpsrVal(c),
     spsr |-> SpsrVal((a + c) % 2)]

Snapshots ==
    {Snapshot(a, c, p) : a \in 0..(NumRegVals - 1),
                         c \in 0..(NumCpsrVals - 1), p \in 0..1}

\* target memory: words at a few addresses, two images
MemAddrs == {W(0, 4096), W(0, 8192), W(0, 32768)}
MemImage(k) == [a \in MemAddrs |-> IF k = 0 THEN a ELSE NotW(a)]
MemImages == {MemImage(0), MemImage(1)}

UBChoices == [junk : {W(0, 4097), W(0, 16)}, sh32 : BOOLEAN]

\* an instruction word from its fields: cond 31-28, bits 27-20, 19-16,
\* 15-12, 11-8, 7-4, 3-0
Instr(cond, op, f19, f15, f11, f7, f3) ==
    W(cond * 4096 + op * 16 + f19, f15 * 4096 + f11 * 256 + f7 * 16 + f3)

\* condition fields used: EQ, NE, LT, AL
Conds == {0, 1, 11, 14}

\* B / BL / BLX label: bits 27-24 = op4, bits 23-0 = imm24
BranchWord(cond, op4, imm24) ==
    W(cond * 4096 + op4 * 256 + (imm24 \div Half), imm24 % Half)

\* imm24 fields: 0, 1, 0x7fffff, 0x800000, 0xfffffe, 0xffffff
Imm24Vals == {0, 1, 8388607, 8388608, 16777214, 16777215}

RmVals == {0, 1, 2, 14, 15}

BranchCalls ==
    {<<BranchWord(c, 10, i), "arm_bra_b_lbl">> : c \in Conds, i \in Imm24Vals}
    \cup {<<BranchWord(c, 11, i), "arm_bra_bl_lbl">> :
            c \in Conds, i \in Imm24Vals}
    \cup {<<BranchWord(15, h, i), "arm_bra_blx_lbl">> :
            h \in {10, 11}, i \in Imm24Vals}
    \cup {<<Instr(c, 18, 15, 15, 15, 1, m), "arm_bra_bx_r">> :
            c \in Conds, m \in RmVals}
    \cup {<<Instr(c, 18, 15, 15, 15, 3, m), "arm_bra_blx_r">> :
            c \in Conds, m \in RmVals}
    \cup {<<Instr(c, 18, 15, 15, 15, 2, m), "arm_bra_bxj_r">> :
            c \in Conds, m \in RmVals}

\* shift-amount field imm5 (bits 11-7) of 0, 2 and 3 as (bits 11-8, bit 7)
Imm5Fields == {<<0, 0>>, <<1, 0>>, <<1, 8>>}

\* MOV / LSL (immediate), ROR / RRX: op = 0x1a (S clear), 0x1b (S set)
ShiftWord(c, sbit, rd, i5, ty, rm) ==
    Instr(c, 26 + sbit, 0, rd, i5[1], i5[2] + ty * 2, rm)

NeonHi == {62080, 62088, 62141, 62386}
NeonLo == {16, 3633, 4176, 336, 3153, 3840, 80, 2512}
NeonWords == {W(h, l) : h \in NeonHi, l \in NeonLo}

NeonMuxExtras ==
    {"arm_mux_vbic_vmvn", "arm_mux_vshrn_q_imm", "arm_mux_vrshrn_q_imm",
     "arm_mux_vshll_i_vmovl", "arm_mux_vorr_i_vmov_i", "arm_mux_vmovn_q",
     "arm_mux_vorr_vmov_nm"}

MuxCalls ==
    {<<ShiftWord(c, sb, 15, i5, 0, m), "arm_mux_lsl_i_mov_pc">> :
        c \in Conds, sb \in {0, 1}, i5 \in Imm5Fields, m \in RmVals}
    \cup {<<ShiftWord(c, sb, rd, i5, 0, m), "arm_mux_lsl_i_mov">> :
        c \in Conds, sb \in {0, 1}, rd \in {0, 14}, i5 \in Imm5Fields,
        m \in {1, 15}}
    \cup {<<ShiftWord(c, sb, rd, i5, 3, m), "arm_mux_ror_i_rrx">> :
        c \in Conds, sb \in {0, 1}, rd \in {0, 14}, i5 \in Imm5Fields,
        m \in {1, 15}}
    \cup {<<Instr(c, 18 + 4 * r, mk, 15, 0, 0, n), "arm_mux_msr_r_pr">> :
        c \in {1, 14}, r \in {0, 1}, mk \in {0, 3, 8}, n \in {0, 1, 15}}
    \cup {<<Instr(c, 16 + 4 * r, 15, d, e, 0, 0), "arm_mux_mrs_r_pr">> :
        c \in {1, 14}, r \in {0, 1}, d \in {0, 15}, e \in {0, 15}}
    \cup {<<Instr(c, 50 + 4 * r, mk, 15, 0, h[1], h[2]),
            "arm_mux_msr_i_pr_hints">> :
        c \in {1, 14}, r \in {0, 1}, mk \in {0, 8},
        h \in {<<0, 0>>, <<0, 2>>, <<0, 4>>, <<0, 5>>, <<15, 1>>}}
    \cup {<<Instr(c, 50, 0, 15, 0, 0, h), "arm_mux_wfe_wfi">> :
        c \in {1, 14}, h \in {1, 2, 3, 4}}
    \cup {<<w, e>> : w \in NeonWords, e \in NeonMuxExtras}
    \cup {<<Instr(15, 64 + 2 * l, n, 0, ty, sa, m),
            IF l = 1 THEN "arm_mux_vld_type" ELSE "arm_mux_vst_type">> :
        l \in {0, 1}, n \in {0, 15}, ty \in {0, 2, 3, 4, 6, 10, 11},
        sa \in {0, 2, 3, 12}, m \in {1, 13, 15}}
    \cup {<<Instr(14, 18, 15, 15, 15, 1, 14), "arm_bra_bx_r">>}

\* words that match no entry of the table excerpt: UDF, SVC, LDR, MUL
UnmatchedWords ==
    {W(59376, 240), W(61184, 0), W(58781, 61444), W(57344, 401)}

DispatchWords ==
    {c[1] : c \in {d \in BranchCalls :
                     bitrng(d[1], 31, 28) \in {1, 14, 15}
                       /\ bitrng(d[1], 3, 0) \in {0, 1, 14, 15}}}
    \cup {ShiftWord(c, sb, rd, i5, ty, m) :
            c \in {1, 14}, sb \in {0, 1}, rd \in {0, 15},
            i5 \in {<<0, 0>>, <<1, 8>>}, ty \in {0, 3}, m \in {1, 14}}
    \cup UnmatchedWords

(***************************************************************************)
(* The state machine: the debug agent owns the register snapshot and the   *)
(* target memory; one decode call at a time is made on them.               *)
(***************************************************************************)
(* Inputs of the data-processing handlers: instruction words with their    *)
(* sub-types, paired as the decode table pairs them (an exception-return   *)
(* sub-type only with Rd = PC)                                             *)
(***************************************************************************)
\* what the build makes of undefined operations in the data-processing
\* handlers: the value of a local read before it is assigned, a shift by
\* the width of the type, a signed overflow
UBData == [junk : {W(0, 4097), W(0, 16)}, sh32 : BOOLEAN, ovf : BOOLEAN]

\* destination fields: a core register and the PC
RdVals == {0, 15}

\* the operation of bits 24-21, by name
OpName ==
    << "and", "eor", "sub", "rsb", "add", "adc", "sbc", "rsc",
       "tst", "teq", "cmp", "cmn", "orr", "mov", "bic", "mvn" >>

\* the S bit: the compare instructions exist with S set only
SBit(opc) == IF opc \in 8..11 THEN 1 ELSE 0

\* shift type (bits 6-5) and amount (bits 11-7): LSL #0, ASR #32, RRX, ROR #4
StdShifts == {<<0, 0>>, <<2, 0>>, <<3, 0>>, <<3, 4>>}

\* data processing, register: bits 27-25 = 000, bit 4 = 0
DataRegWord(opc, s, rn, rd, ty, imm5, rm) ==
    Instr(14, (opc * 2) + s, rn, rd, imm5 \div 2,
          ((imm5 % 2) * 8) + (ty * 2), rm)

\* data processing, register-shifted register: bit 7 = 0, bit 4 = 1
DataRshrWord(opc, s, rn, rd, rs, ty, rm) ==
    Instr(14, (opc * 2) + s, rn, rd, rs, (ty * 2) + 1, rm)

\* data processing, immediate: bits 27-25 = 001
DataImmWord(opc, s, rn, rd, rot, imm8) ==
    Instr(14, 32 + (opc * 2) + s, rn, rd, rot, imm8 \div 16, imm8 % 16)

StdRCalls ==
    {<<"arm_core_data_std_r",
       DataRegWord(opc, SBit(opc), rn, rd, sh[1], sh[2], 2),
       "arm_cdata_" \o OpName[opc + 1] \o "_r">> :
        opc \in (0..15) \ {13}, rn \in {1}, rd \in RdVals, sh \in StdShifts}
    \cup
    {<<"arm_core_data_std_r", DataRegWord(4, 0, 15, rd, 0, 0, 15),
       "arm_cdata_add_r">> : rd \in RdVals}
    \cup
    {<<"arm_core_data_std_r", DataRegWord(opc, 0, 13, rd, 0, 0, 2),
       "arm_cdata_" \o OpName[opc + 1] \o "_r_sp">> :
        opc \in {2, 4}, rd \in RdVals}
    \cup
    {<<"arm_core_data_std_r", DataRegWord(opc, s, 14, 15, sh[1], sh[2], 2),
       "arm_ret_" \o OpName[opc + 1] \o "_r">> :
        opc \in (0..15) \ {8, 9, 10, 11, 13}, s \in {0, 1},
        sh \in {<<0, 0>>, <<3, 4>>}}

StdShCalls ==
    {<<"arm_core_data_std_sh",
       DataRshrWord(opc, SBit(opc), 1, rd, 3, ty, 2),
       "arm_cdata_" \o OpName[opc + 1] \o "_rshr">> :
        opc \in (0..15) \ {13}, rd \in RdVals, ty \in {0, 3}}

StdICalls ==
    {<<"arm_core_data_std_i", DataImmWord(opc, SBit(opc), 1, rd, rot, 129),
       "arm_cdata_" \o OpName[opc + 1] \o "_imm">> :
        opc \in 0..15, rd \in RdVals, rot \in {0, 4}}
    \cup
    {<<"arm_core_data_std_i", DataImmWord(4, 0, 15, rd, 0, 16),
       "arm_cdata_adr_lbla">> : rd \in RdVals}
    \cup
    {<<"arm_core_data_std_i", DataImmWord(2, 0, 15, rd, 0, 16),
       "arm_cdata_adr_lblb">> : rd \in RdVals}
    \cup
    {<<"arm_core_data_std_i", DataImmWord(opc, 0, 13, rd, 0, 16),
       "arm_cdata_" \o OpName[opc + 1] \o "_imm_sp">> :
        opc \in {2, 4}, rd \in RdVals}
    \cup
    {<<"arm_core_data_std_i", DataImmWord(opc, s, 14, 15, 0, 4),
       "arm_ret_" \o OpName[opc + 1] \o "_imm">> :
        opc \in (0..15) \ {0, 8, 9, 10, 11, 12}, s \in {0, 1}}

\* MOV and the shifts: bits 24-21 = 1101; shift by immediate (bit 4 = 0)
\* and by register (bit 4 = 1)
BitCalls ==
    {<<"arm_core_data_bit", DataRegWord(13, 0, 0, rd, c[2], c[3], 2), c[1]>> :
        rd \in RdVals,
        c \in {<<"arm_cdata_mov_r", 0, 0>>, <<"arm_cdata_lsl_imm", 0, 4>>,
               <<"arm_cdata_lsr_imm", 1, 4>>, <<"arm_cdata_asr_imm", 2, 4>>,
               <<"arm_cdata_rrx_r", 3, 0>>, <<"arm_cdata_ror_imm", 3, 4>>}}
    \cup
    {<<"arm_core_data_bit", DataRshrWord(13, 0, 0, rd, 3, c[2], 2), c[1]>> :
        rd \in RdVals,
        c \in {<<"arm_cdata_lsl_r", 0>>, <<"arm_cdata_lsr_r", 1>>,
               <<"arm_cdata_asr_r", 2>>, <<"arm_cdata_ror_r", 3>>}}
    \cup
    {<<"arm_core_data_bit", DataRegWord(13, s, 0, 15, c[2], c[3], 14), c[1]>> :
        s \in {0, 1},
        c \in {<<"arm_ret_mov_pc", 0, 0>>, <<"arm_ret_lsl_imm", 0, 4>>,
               <<"arm_ret_lsr_imm", 1, 4>>, <<"arm_ret_asr_imm", 2, 4>>,
               <<"arm_ret_rrx_pc", 3, 0>>, <<"arm_ret_ror_imm", 3, 4>>}}

\* multiplies: Rd = bits 19-16, Ra = bits 15-12, Rm = bits 11-8,
\* Rn = bits 3-0; the sub-type with bits 27-20 and bits 7-4
MacForms ==
    {<<"arm_cmac_mul", 0, 9>>, <<"arm_cmac_mla", 2, 9>>,
     <<"arm_cmac_mls", 6, 9>>, <<"arm_cmac_smla", 16, 8>>,
     <<"arm_cmac_smla", 16, 14>>, <<"arm_cmac_smlaw", 18, 8>>,
     <<"arm_cmac_smulw", 18, 10>>, <<"arm_cmac_smul", 22, 8>>,
     <<"arm_cmac_smul", 22, 14>>, <<"arm_cmac_smlad", 112, 1>>,
     <<"arm_cmac_smlad", 112, 3>>, <<"arm_cmac_smlsd", 112, 5>>,
     <<"arm_cmac_smuad", 112, 1>>, <<"arm_cmac_smusd", 112, 5>>,
     <<"arm_cmac_smmla", 117, 1>>, <<"arm_cmac_smmul", 117, 3>>,
     <<"arm_cmac_smmls", 117, 13>>}

\* the multiplies without an accumulator hold 1111 (or zeros, for MUL) in
\* bits 15-12
MacRaVals(e) ==
    CASE e \in {"arm_cmac_smuad", "arm_cmac_smusd", "arm_cmac_smmul"} -> {15}
      [] e \in {"arm_cmac_mul", "arm_cmac_smulw", "arm_cmac_smul"} -> {0}
      [] OTHER -> {3, 15}

MacCalls ==
    {<<"arm_core_data_mac", Instr(14, c[1][2], c[2], c[3], 1, c[1][3], 2),
       c[1][1]>> :
        c \in {<<f, rd, ra>> \in MacForms \X RdVals \X {0, 3, 15} :
                  ra \in MacRaVals(f[1])}}

\* long multiplies: RdHi = bits 19-16, RdLo = bits 15-12
MacdForms ==
    {<<"arm_cmac_umaal", 4, 9>>, <<"arm_cmac_umull", 8, 9>>,
     <<"arm_cmac_umlal", 10, 9>>, <<"arm_cmac_smull", 12, 9>>,
     <<"arm_cmac_smlal", 14, 9>>, <<"arm_cmac_smlal16", 20, 12>>,
     <<"arm_cmac_smlald", 116, 1>>, <<"arm_cmac_smlald", 116, 3>>,
     <<"arm_cmac_smlsld", 116, 5>>}

MacdCalls ==
    {<<"arm_core_data_macd", Instr(14, f[2], d[1], d[2], 1, f[3], 2), f[1]>> :
        f \in MacdForms, d \in {<<4, 3>>, <<15, 3>>, <<4, 15>>}}

\* SDIV, UDIV: Rd = bits 19-16, Rm = bits 11-8, Rn = bits 3-0
DivCalls ==
    {<<"arm_core_data_div", Instr(14, f[2], rd, 15, r[1], 1, r[2]), f[1]>> :
        f \in {<<"arm_div_sdiv", 113>>, <<"arm_div_udiv", 115>>},
        rd \in RdVals, r \in {<<1, 2>>, <<4, 3>>, <<15, 2>>, <<1, 15>>}}

\* saturating add and subtract (Rn = bits 19-16, Rm = bits 3-0) and
\* saturate (width in bits 20-16, Rn = bits 3-0)
SatCalls ==
    {<<"arm_core_data_sat", Instr(14, f[2], 1, rd, 0, 5, 2), f[1]>> :
        f \in {<<"arm_sat_qadd", 16>>, <<"arm_sat_qsub", 18>>,
               <<"arm_sat_qdadd", 20>>, <<"arm_sat_qdsub", 22>>},
        rd \in RdVals}
    \cup
    {<<"arm_core_data_sat", Instr(14, f[2], f[3], rd, f[4], f[5], 2), f[1]>> :
        f \in {<<"arm_sat_ssat", 106, 7, 0, 1>>,
               <<"arm_sat_ssat", 106, 0, 0, 1>>,
               <<"arm_sat_ssat", 107, 15, 2, 5>>,
               <<"arm_sat_usat", 110, 8, 0, 1>>,
               <<"arm_sat_usat", 111, 15, 2, 5>>,
               <<"arm_sat_ssat16", 106, 7, 15, 3>>,
               <<"arm_sat_usat16", 110, 8, 15, 3>>},
        rd \in RdVals}

\* pack and extend: Rn = bits 19-16 (1111: no addition), Rm = bits 3-0
PackCalls ==
    {<<"arm_core_data_pack", Instr(14, 104, 1, rd, 2, f7, 2), "arm_pack_pkh">> :
        rd \in RdVals, f7 \in {1, 5}}
    \cup
    {<<"arm_core_data_pack", Instr(14, f[2], f[3], rd, rot, 7, 2), f[1]>> :
        f \in {<<"arm_pack_sxtab16", 104, 1>>, <<"arm_pack_sxtb16", 104, 15>>,
               <<"arm_pack_sxtab", 106, 1>>, <<"arm_pack_sxtb", 106, 15>>,
               <<"arm_pack_sxtah", 107, 1>>, <<"arm_pack_sxth", 107, 15>>,
               <<"arm_pack_uxtab16", 108, 1>>, <<"arm_pack_uxtb16", 108, 15>>,
               <<"arm_pack_uxtab", 110, 1>>, <<"arm_pack_uxtb", 110, 15>>,
               <<"arm_pack_uxtah", 111, 1>>, <<"arm_pack_uxth", 111, 15>>},
        rd \in RdVals, rot \in {0, 4}}

\* parallel add and subtract: signed 0x61 (modular), 0x62 (saturating),
\* 0x63 (halving), unsigned 0x65, 0x66, 0x67; the operation in bits 7-5
ParForms ==
    {<<"arm_par_sadd16", 97, 1>>, <<"arm_par_sasx", 97, 3>>,
     <<"arm_par_ssax", 97, 5>>, <<"arm_par_ssub16", 97, 7>>,
     <<"arm_par_sadd8", 97, 9>>, <<"arm_par_ssub8", 97, 15>>,
     <<"arm_par_qadd16", 98, 1>>, <<"arm_par_qasx", 98, 3>>,
     <<"arm_par_qsax", 98, 5>>, <<"arm_par_qsub16", 98, 7>>,
     <<"arm_par_qadd8", 98, 9>>, <<"arm_par_qsub8", 98, 15>>,
     <<"arm_par_shadd16", 99, 1>>, <<"arm_par_shasx", 99, 3>>,
     <<"arm_par_shsax", 99, 5>>, <<"arm_par_shsub16", 99, 7>>,
     <<"arm_par_shadd8", 99, 9>>, <<"arm_par_shsub8", 99, 15>>,
     <<"arm_par_uadd16", 101, 1>>, <<"arm_par_uasx", 101, 3>>,
     <<"arm_par_usax", 101, 5>>, <<"arm_par_usub16", 101, 7>>,
     <<"arm_par_uadd8", 101, 9>>, <<"arm_par_usub8", 101, 15>>,
     <<"arm_par_uqadd16", 102, 1>>, <<"arm_par_uqasx", 102, 3>>,
     <<"arm_par_uqsax", 102, 5>>, <<"arm_par_uqsub16", 102, 7>>,
     <<"arm_par_uqadd8", 102, 9>>, <<"arm_par_uqsub8", 102, 15>>,
     <<"arm_par_uhadd16", 103, 1>>, <<"arm_par_uhasx", 103, 3>>,
     <<"arm_par_uhsax", 103, 5>>, <<"arm_par_uhsub16", 103, 7>>,
     <<"arm_par_uhadd8", 103, 9>>, <<"arm_par_uhsub8", 103, 15>>}

ParCalls ==
    {<<"arm_core_data_par", Instr(14, f[2], 1, rd, 15, f[3], 2), f[1]>> :
        f \in ParForms, rd \in RdVals}

DataCalls ==
    StdRCalls \cup StdShCalls \cup StdICalls \cup BitCalls \cup MacCalls
    \cup MacdCalls \cup DivCalls \cup SatCalls \cup PackCalls \cup ParCalls

DataHandlers == {c[1] : c \in DataCalls}

(***************************************************************************)
(* Inputs of arm_core_ldstm                                                *)
(***************************************************************************)
\* LDM / STM: bits 27-25 = 100, P U M W L in bits 24-20, Rn in bits 19-16,
\* the register list in bits 15-0
LdstmWord(op, rn, f15, f3) == Instr(14, 128 + op, rn, f15, 0, 0, f3)

\* register lists: {r0-r2}, {r0, pc}, {pc}, {}, {r0, r1, sp}
LdstmLists == {<<0, 7>>, <<8, 1>>, <<8, 0>>, <<0, 0>>, <<2, 3>>}

\* any sub-type other than the single-register pop and push takes the
\* branch of lines 3419-3581: LDR / STR with the stack pointer for these two
LdstmCalls ==
    {<<LdstmWord(op, rn, l[1], l[2]),
       IF op % 2 = 1 THEN "arm_cldstm_ldm" ELSE "arm_cldstm_stm">> :
        op \in 0..31, rn \in {1, 13, 15}, l \in LdstmLists}
    \cup {<<Instr(14, 73, 13, rt, 0, 0, 4), "arm_cldstm_pop_r">> :
            rt \in {0, 13, 15}}
    \cup {<<Instr(14, 82, 13, rt, 0, 0, 4), "arm_cldstm_push_r">> :
            rt \in {0, 13, 15}}

(***************************************************************************)
(* Inputs of arm_core_status                                               *)
(***************************************************************************)
\* what the handler reads from the processor: security state, NSACR bit 19,
\* SCR bit 0, the banked register
StatusEnv ==
    [secure : {0, 1}, nsacr19 : {0, 1}, scr0 : {0, 1},
     banked : {W(0, 12288), W(0, 20481)}]

\* snapshots taken in each of the processor modes, and in a reserved one
StatusModes == {16, 17, 18, 19, 22, 23, 26, 27, 31, 21}

StatusSnapshots ==
    {[Snapshot(0, 0, 0) EXCEPT !.cpsr = W(24576, m)] : m \in StatusModes}

\* CPS: 1111 0001 0000 imod M 0 ... A I F 0 mode
CpsWord(imod, m, aif, mode) ==
    Instr(15, 16, (imod * 4) + (m * 2), 0, aif \div 4,
          ((aif % 4) * 4) + (mode \div 16), mode % 16)

\* MRS (banked): cond 0001 0R00 M1 Rd 001M 0000 0000
\* MSR (banked): cond 0001 0R10 M1 1111 001M 0000 Rn
StatusCalls ==
    {<<CpsWord(imod, m, aif, mode), "arm_cstat_cps">> :
        imod \in 0..3, m \in {0, 1}, aif \in {0, 7},
        mode \in {0, 16, 17, 18, 22, 26, 31, 21}}
    \cup
    {<<Instr(14, 16 + (4 * r), m1, rd, 2 + m, 0, 0), "arm_cstat_mrs_b">> :
        r \in {0, 1}, m1 \in 0..15, rd \in {0, 15}, m \in {0, 1}}
    \cup
    {<<Instr(14, 18 + (4 * r), m1, 15, 2 + m, 0, 1), "arm_cstat_msr_b">> :
        r \in {0, 1}, m1 \in 0..15, m \in {0, 1}}

(***************************************************************************)
(* Inputs of arm_coproc                                                    *)
(***************************************************************************)
\* sub-type, condition field, bits 27-20, bits 7-4
CoprocForms ==
    {<<"arm_cop_mcrr", 14, 196, 0>>, <<"arm_cop_mcrr2", 15, 196, 0>>,
     <<"arm_cop_mrrc", 14, 197, 0>>, <<"arm_cop_mrrc2", 15, 197, 0>>,
     <<"arm_cop_mcr", 14, 224, 1>>, <<"arm_cop_mcr2", 15, 224, 1>>,
     <<"arm_cop_mrc", 14, 225, 1>>, <<"arm_cop_mrc2", 15, 225, 1>>,
     <<"arm_cop_cdp", 14, 224, 0>>, <<"arm_cop_cdp2", 15, 224, 0>>,
     <<"arm_cop_ldc", 14, 193, 0>>, <<"arm_cop_ldc", 14, 203, 0>>,
     <<"arm_cop_ldc2", 15, 193, 0>>, <<"arm_cop_ldc2", 15, 203, 0>>,
     <<"arm_cop_ldc_pc", 14, 193, 0>>, <<"arm_cop_ldc_pc", 14, 203, 0>>,
     <<"arm_cop_ldc2_pc", 15, 193, 0>>, <<"arm_cop_ldc2_pc", 15, 203, 0>>,
     <<"arm_cop_stc", 14, 192, 0>>, <<"arm_cop_stc", 14, 202, 0>>,
     <<"arm_cop_stc2", 15, 192, 0>>, <<"arm_cop_stc2", 15, 202, 0>>}

\* coprocessor numbers: vendor, reserved, floating point, debug, control
CoprocNums == {0, 7, 8, 9, 10, 12, 13, 14, 15}

\* the register fields of bits 19-16 and 15-12
CoprocRegs == {<<0, 0>>, <<15, 0>>, <<0, 15>>, <<0, 13>>}

CoprocCalls ==
    {<<Instr(f[2], f[3],
             IF f[1] \in {"arm_cop_ldc_pc", "arm_cop_ldc2_pc"} THEN 15
             ELSE r[1],
             r[2], cp, f[4], 0), f[1]>> :
        f \in CoprocForms, r \in CoprocRegs, cp \in CoprocNums}

(***************************************************************************)
(* Calls of arm_core_data_bit, arm_core_data_pack and arm_vfp_ldst_ext     *)
(* with every sub-type the function accepts, whatever the instruction word *)
(***************************************************************************)
\* VLDM / VSTM words: bits 27-25 = 110, P U D W L = bits 24-20, coprocessor
\* 10 (32-bit) or 11 (64-bit), register count in bits 7-0
VfpExtWord(puw, l, rn, cp, n) ==
    Instr(14, 192 + (puw \div 4) * 16 + ((puw \div 2) % 2) * 8
              + (puw % 2) * 2 + l, rn, 0, cp, 0, n)

VfpExtCalls ==
    {<<VfpExtWord(puw, f[2], rn, f[3], n), f[1]>> :
        f \in {<<"arm_vldstx_vldm32", 1, 10>>, <<"arm_vldstx_vldm64", 1, 11>>,
               <<"arm_vldstx_vstm32", 0, 10>>, <<"arm_vldstx_vstm64", 0, 11>>},
        puw \in 0..7, rn \in {1, 15}, n \in {0, 2}}
    \cup
    {<<VfpExtWord(puw, f[2], 15, f[3], 2), f[1]>> :
        f \in {<<"arm_vldstx_vldr_s_imm", 1, 10>>,
               <<"arm_vldstx_vldr_d_imm", 1, 11>>,
               <<"arm_vldstx_vstr_s_imm", 0, 10>>,
               <<"arm_vldstx_vstr_d_imm", 0, 11>>},
        puw \in {4, 6}}
    \cup
    {<<VfpExtWord(f[2], f[3], 13, f[4], n), f[1]>> :
        f \in {<<"arm_vldstx_vpop32", 3, 1, 10>>,
               <<"arm_vldstx_vpop64", 3, 1, 11>>,
               <<"arm_vldstx_vpush32", 5, 0, 10>>,
               <<"arm_vldstx_vpush64", 5, 0, 11>>},
        n \in {0, 2}}

\* the exception-return sub-types of arm_core_data_bit with any Rd, and the
\* extend sub-types of arm_core_data_pack with any value of bits 21-20
UnpairedCalls ==
    {<<"arm_core_data_bit", DataRegWord(13, s, 0, rd, c[2], c[3], 14), c[1]>> :
        s \in {0, 1}, rd \in RdVals,
        c \in {<<"arm_ret_mov_pc", 0, 0>>, <<"arm_ret_lsl_imm", 0, 4>>,
               <<"arm_ret_lsr_imm", 1, 4>>, <<"arm_ret_asr_imm", 2, 4>>,
               <<"arm_ret_rrx_pc", 3, 0>>, <<"arm_ret_ror_imm", 3, 4>>}}
    \cup
    {<<"arm_core_data_pack", Instr(14, op, rn, rd, 0, 7, 2), e>> :
        op \in {105, 106, 109, 111}, rn \in {1, 15}, rd \in RdVals,
        e \in {"arm_pack_sxtab", "arm_pack_uxtb"}}

(***************************************************************************)
(* Inputs of arm_vfp_ldst_elem                                             *)
(***************************************************************************)
\* the sub-type suffix with the values of bits 11-8 it is paired with:
\* "type" for the multiple-structure forms, size and n - 1 for the
\* single-element forms, 11 and n - 1 for the all-lanes forms
ElemForms ==
    {<<"1_mult", {2, 6, 7, 10}, 64>>, <<"2_mult", {3, 8, 9}, 64>>,
     <<"3_mult", {4, 5}, 64>>, <<"4_mult", {0, 1}, 64>>,
     <<"1_one", {0, 4, 8}, 72>>, <<"2_one", {1, 5, 9}, 72>>,
     <<"3_one", {2, 6, 10}, 72>>, <<"4_one", {3, 7, 11}, 72>>}

\* base register Rn and index register Rm: no writeback (Rm = 15),
\* writeback by the transfer size (Rm = 13), writeback by Rm
ElemRegs == {<<1, 15>>, <<1, 2>>, <<15, 15>>, <<15, 13>>, <<15, 2>>}

\* bits 7-4: size and alignment, or the index and alignment
ElemAligns == {0, 3, 12}

ElemCalls ==
    UNION {{<<Instr(15, f[3] + l, r[1], 0, t, a, r[2]),
              (IF l = 2 THEN "arm_vldste_vld" ELSE "arm_vldste_vst")
                  \o f[1]>> :
               t \in f[2], l \in {0, 2}, r \in ElemRegs, a \in ElemAligns} :
           f \in ElemForms}
    \cup
    {<<Instr(15, 74, r[1], 0, 11 + n, a, r[2]),
       "arm_vldste_vld" \o (CASE n = 1 -> "1" [] n = 2 -> "2" [] n = 3 -> "3"
                              [] OTHER -> "4") \o "_all">> :
        n \in 1..4, r \in ElemRegs, a \in ElemAligns \cup {1}}

(***************************************************************************)
(* Inputs of arm_core_ldst                                                 *)
(***************************************************************************)
\* bits 27-26 = 01, I P U B W L = bits 25-20, the offset in bits 11-0
LdstWord(i, p, u, b, w, l, rn, rt, off) ==
    Instr(14, 64 + i * 32 + p * 16 + u * 8 + b * 4 + w * 2 + l, rn, rt,
          off \div 256, (off \div 16) % 16, off % 16)

\* Rn and Rt
LdstRegs == {<<15, 0>>, <<1, 15>>, <<1, 2>>, <<15, 15>>}

\* register offsets: r2 or pc, shifted by 0 and by 4, each shift type
LdstRegOffsets ==
    {imm * 128 + ty * 32 + 2 : imm \in {0, 4}, ty \in 0..3} \cup {15}

LdstCalls ==
    {LdstWord(1, pw \div 2, u, 0, pw % 2, l, r[1], r[2], off) :
        pw \in 0..3, u \in {0, 1}, l \in {0, 1},
        r \in {<<15, 0>>, <<1, 15>>}, off \in LdstRegOffsets}
    \cup
    {LdstWord(0, pw \div 2, u, b, pw % 2, l, r[1], r[2], off) :
        pw \in 0..3, u \in {0, 1}, b \in {0, 1}, l \in {0, 1},
        r \in LdstRegs, off \in {0, 8}}

(***************************************************************************)
(* Calls whose returned address shows the shifted operand: the shifts to   *)
(* the PC with S clear, MVN to the PC                                      *)
(***************************************************************************)
\* sub-type, shift type, shift amount field
ShiftForms ==
    {<<"arm_ret_mov_pc", 0, 0>>, <<"arm_ret_lsl_imm", 0, 4>>,
     <<"arm_ret_lsr_imm", 1, 0>>, <<"arm_ret_lsr_imm", 1, 4>>,
     <<"arm_ret_asr_imm", 2, 0>>, <<"arm_ret_asr_imm", 2, 4>>,
     <<"arm_ret_rrx_pc", 3, 0>>, <<"arm_ret_ror_imm", 3, 4>>,
     <<"arm_ret_ror_imm", 3, 31>>}

ShiftCalls ==
    {<<"arm_core_data_bit", DataRegWord(13, s, 0, 15, c[2], c[3], rm), c[1]>> :
        s \in {0, 1}, rm \in {2, 14}, c \in ShiftForms}
    \cup
    {<<"arm_core_data_bit", DataRshrWord(13, 0, 0, 15, 3, ty, 2),
       CASE ty = 0 -> "arm_cdata_lsl_r" [] ty = 1 -> "arm_cdata_lsr_r"
         [] ty = 2 -> "arm_cdata_asr_r" [] OTHER -> "arm_cdata_ror_r">> :
        ty \in 0..3}
    \cup
    {<<"arm_core_data_std_r", DataRegWord(15, 0, 0, 15, ty, imm, rm),
       "arm_cdata_mvn_r">> : ty \in 0..3, imm \in {0, 4, 31}, rm \in {2, 14}}
    \cup
    {<<"arm_core_data_std_sh", DataRshrWord(15, 0, 0, 15, 3, ty, rm),
       "arm_cdata_mvn_rshr">> : ty \in 0..3, rm \in {2, 14}}

(***************************************************************************)
(* Inputs of arm_core_exc                                                  *)
(***************************************************************************)
\* what the handler reads from the processor: security state, SCR bits 8
\* and 7, HCR bit 19, ELR_hyp, access to coprocessor 16
ExcEnv ==
    [secure : {0, 1}, scr8 : {0, 1}, scr7 : {0, 1}, hcr19 : {0, 1},
     elr_hyp : {W(0, 16384)}, cp16 : {0, 1}]

\* modes usr, fiq, svc, mon, hyp, sys
ExcModes == {16, 17, 19, 22, 26, 31}

\* base addresses around the mapped word at 0x2000
ExcBases == {W(0, 8192), W(0, 8196), W(0, 8200), W(0, 8188)}

ExcSnapshots ==
    {[Snapshot(0, 0, 0) EXCEPT !.cpsr = W(24576, m), !.storage[1] = v] :
        m \in ExcModes, v \in ExcBases}

\* RFE: 1111 100P U0W1 Rn 0000 1010 0000 0000
\* SRS: 1111 100P U1W0 1101 0000 0101 000 mode
ExcCalls ==
    {<<Instr(15, 129 + (16 * p) + (8 * u) + (2 * w), rn, 0, 10, 0, 0),
       "arm_exc_rfe">> : p \in {0, 1}, u \in {0, 1}, w \in {0, 1},
                         rn \in {1, 15}}
    \cup
    {<<Instr(15, 132 + (16 * p) + (8 * u) + (2 * w), 13, 0, 5, mode \div 16,
             mode % 16), "arm_exc_srs">> :
        p \in {0, 1}, u \in {0, 1}, w \in {0, 1}, mode \in {19, 26}}
    \cup
    {<<Instr(14, 22, 0, 0, 0, 6, 14), "arm_exc_eret">>,
     <<Instr(14, 18, 0, 0, 0, 7, 0), "arm_exc_bkpt">>,
     <<Instr(14, 20, 0, 0, 0, 7, 0), "arm_exc_hvc">>,
     <<Instr(14, 22, 0, 0, 0, 7, 0), "arm_exc_smc">>,
     <<Instr(14, 240, 0, 0, 0, 0, 0), "arm_exc_svc">>,
     <<Instr(14, 127, 0, 0, 0, 15, 0), "arm_exc_udf">>}

(***************************************************************************)
(* Inputs of arm_core_ldstrex                                              *)
(***************************************************************************)
\* cond 0001 1 S H L Rn Rd 1111 1001 Rt; loads have Rt in bits 15-12 and
\* 1111 in bits 3-0
SyncSizes ==
    {<<0, ""  >>, <<1, "d">>, <<2, "b">>, <<3, "h">>}

SyncCalls ==
    {<<Instr(14, 24 + (2 * s[1]), rn, rd, 15, 9, rt),
       "arm_sync_strex" \o s[2]>> :
        s \in SyncSizes, rn \in {1, 15}, rd \in {0, 1, 15},
        rt \in {2, 3, 14, 15}}
    \cup
    {<<Instr(14, 25 + (2 * s[1]), rn, rt, 15, 9, 15),
       "arm_sync_ldrex" \o s[2]>> :
        s \in SyncSizes, rn \in {1, 15}, rt \in {2, 14, 15}}

(***************************************************************************)
VARIABLES rpi2_reg_context, memory, pc, handler, instr, extra, retval,
          compared, invoked

vars == <<rpi2_reg_context, memory, pc, handler, instr, extra, retval,
          compared, invoked>>

NoCall ==
    /\ handler = "none"
    /\ instr = W(0, 0)
    /\ extra = "none"
    /\ retval = set_undef_addr
    /\ compared = 0
    /\ invoked = << >>

Init ==
    /\ rpi2_reg_context \in Snapshots
    /\ memory \in MemImages
    /\ pc = "idle"
    /\ NoCall

\* the agent stores a new register snapshot between two decode calls
SetContext ==
    /\ pc = "idle"
    /\ rpi2_reg_context' \in Snapshots
    /\ UNCHANGED <<memory, pc, handler, instr, extra, retval, compared,
                   invoked>>

\* the agent patches target memory between two decode calls
PatchMemory ==
    /\ pc = "idle"
    /\ memory' \in MemImages
    /\ UNCHANGED <<rpi2_reg_context, pc, handler, instr, extra, retval,
                   compared, invoked>>

\* a decoding function returns: what it leaves behind
Returned(h, i, e, r) ==
    /\ pc' = "returned"
    /\ handler' = h
    /\ instr' = i
    /\ extra' = e
    /\ retval' = r

Call_arm_branch ==
    /\ pc = "idle"
    /\ \E c \in BranchCalls :
          Returned("arm_branch", c[1], c[2],
                   arm_branch(rpi2_reg_context, c[1], c[2]))
    /\ UNCHANGED <<rpi2_reg_context, memory, compared, invoked>>

Call_arm_mux ==
    /\ pc = "idle"
    /\ \E c \in MuxCalls, ub \in UBChoices :
          Returned("arm_mux", c[1], c[2],
                   arm_mux(rpi2_reg_context, c[1], c[2], ub))
    /\ UNCHANGED <<rpi2_reg_context, memory, compared, invoked>>

\* a dispatcher that commits the decoded address to the snapshot's r15
Call_ARM_decoder_dispatch_commit ==
    /\ pc = "idle"
    /\ \E w \in DispatchWords, ub \in UBChoices :
          \E d \in {ARM_decoder_dispatch(ARM_decode_table, rpi2_reg_context,
                                         w, ub)} :
              /\ Returned("ARM_decoder_dispatch", w, "none", d.retval)
              /\ compared' = d.compared
              /\ invoked' = d.invoked
              /\ rpi2_reg_context' =
                    [rpi2_reg_context EXCEPT !.storage[15] = d.retval.address]
    /\ UNCHANGED memory

Call_ARM_decoder_dispatch ==
    /\ pc = "idle"
    /\ \E w \in DispatchWords, ub \in UBChoices :
          \E d \in {ARM_decoder_dispatch(ARM_decode_table, rpi2_reg_context,
                                         w, ub)} :
              /\ Returned("ARM_decoder_dispatch", w, "none", d.retval)
              /\ compared' = d.compared
              /\ invoked' = d.invoked
    /\ UNCHANGED <<rpi2_reg_context, memory>>

\* the agent has consumed the outcome
Return ==
    /\ pc = "returned"
    /\ pc' = "idle"
    /\ handler' = "none"
    /\ instr' = W(0, 0)
    /\ extra' = "none"
    /\ retval' = set_undef_addr
    /\ compared' = 0
    /\ invoked' = << >>
    /\ UNCHANGED <<rpi2_reg_context, memory>>

\* a result builder followed by the UNPREDICTABLE overlay, on the address
\* held in one of the registers
Builders == {"set_arm_addr", "set_thumb_addr", "set_addr_lin",
             "set_undef_addr"}

Build(b, a) ==
    CASE b = "set_arm_addr" -> set_arm_addr(a)
      [] b = "set_thumb_addr" -> set_thumb_addr(a)
      [] b = "set_addr_lin" -> set_addr_lin
      [] OTHER -> set_undef_addr

Call_set_unpred_addr ==
    /\ pc = "idle"
    /\ \E r \in 0..15, b \in Builders :
          Returned("set_unpred_addr", Reg(rpi2_reg_context, r), b,
                   set_unpred_addr(Build(b, Reg(rpi2_reg_context, r))))
    /\ UNCHANGED <<rpi2_reg_context, memory, compared, invoked>>

\* one call of a data-processing handler through its table pointer
Call_arm_core_data ==
    /\ pc = "idle"
    /\ \E c \in DataCalls, ub \in UBData :
          Returned(c[1], c[2], c[3],
                   call_decoder(c[1], rpi2_reg_context, c[2], c[3], ub))
    /\ UNCHANGED <<rpi2_reg_context, memory, compared, invoked>>

Call_arm_core_ldstm ==
    /\ pc = "idle"
    /\ \E c \in LdstmCalls, ub \in UBData :
          Returned("arm_core_ldstm", c[1], c[2],
                   arm_core_ldstm(rpi2_reg_context, memory, c[1], c[2], ub))
    /\ UNCHANGED <<rpi2_reg_context, memory, compared, invoked>>

\* the agent stores a snapshot taken in another processor mode
SetStatusContext ==
    /\ pc = "idle"
    /\ rpi2_reg_context' \in StatusSnapshots
    /\ UNCHANGED <<memory, pc, handler, instr, extra, retval, compared,
                   invoked>>

Call_arm_core_status ==
    /\ pc = "idle"
    /\ \E c \in StatusCalls, env \in StatusEnv :
          Returned("arm_core_status", c[1], c[2],
                   arm_core_status(rpi2_reg_context, c[1], c[2], env))
    /\ UNCHANGED <<rpi2_reg_context, memory, compared, invoked>>

Call_arm_coproc ==
    /\ pc = "idle"
    /\ \E c \in CoprocCalls :
          Returned("arm_coproc", c[1], c[2],
                   arm_coproc(rpi2_reg_context, c[1], c[2]))
    /\ UNCHANGED <<rpi2_reg_context, memory, compared, invoked>>

\* a handler called as the C function it is, not through the table
Call_unpaired ==
    /\ pc = "idle"
    /\ \E c \in UnpairedCalls, ub \in UBData :
          Returned(c[1], c[2], c[3],
                   call_decoder(c[1], rpi2_reg_context, c[2], c[3], ub))
    /\ UNCHANGED <<rpi2_reg_context, memory, compared, invoked>>

Call_arm_vfp_ldst_ext ==
    /\ pc = "idle"
    /\ \E c \in VfpExtCalls, ub \in UBData :
          Returned("arm_vfp_ldst_ext", c[1], c[2],
                   arm_vfp_ldst_ext(rpi2_reg_context, c[1], c[2], ub))
    /\ UNCHANGED <<rpi2_reg_context, memory, compared, invoked>>

Call_arm_vfp_ldst_elem ==
    /\ pc = "idle"
    /\ \E c \in ElemCalls :
          Returned("arm_vfp_ldst_elem", c[1], c[2],
                   arm_vfp_ldst_elem(rpi2_reg_context, c[1], c[2]))
    /\ UNCHANGED <<rpi2_reg_context, memory, compared, invoked>>

\* the sub-type is not looked at by arm_core_ldst
Call_arm_core_ldst ==
    /\ pc = "idle"
    /\ \E c \in LdstCalls, ub \in UBData :
          Returned("arm_core_ldst", c, "none",
                   arm_core_ldst(rpi2_reg_context, memory, c, ub))
    /\ UNCHANGED <<rpi2_reg_context, memory, compared, invoked>>

Call_arm_core_shift ==
    /\ pc = "idle"
    /\ \E c \in ShiftCalls, ub \in UBData :
          Returned(c[1], c[2], c[3],
                   call_decoder(c[1], rpi2_reg_context, c[2], c[3], ub))
    /\ UNCHANGED <<rpi2_reg_context, memory, compared, invoked>>

\* the agent stores a snapshot whose r1 points into target memory
SetExcContext ==
    /\ pc = "idle"
    /\ rpi2_reg_context' \in ExcSnapshots
    /\ UNCHANGED <<memory, pc, handler, instr, extra, retval, compared,
                   invoked>>

Call_arm_core_exc ==
    /\ pc = "idle"
    /\ \E c \in ExcCalls, env \in ExcEnv, ub \in UBData :
          Returned("arm_core_exc", c[1], c[2],
                   arm_core_exc(rpi2_reg_context, memory, c[1], c[2], env,
                                ub))
    /\ UNCHANGED <<rpi2_reg_context, memory, compared, invoked>>

Call_arm_core_ldstrex ==
    /\ pc = "idle"
    /\ \E c \in SyncCalls, ub \in UBData :
          Returned("arm_core_ldstrex", c[1], c[2],
                   arm_core_ldstrex(rpi2_reg_context, memory, c[1], c[2],
                                    ub))
    /\ UNCHANGED <<rpi2_reg_context, memory, compared, invoked>>

NextBuilders == SetContext \/ PatchMemory \/ Call_set_unpred_addr \/ Return
SpecBuilders == Init /\ [][NextBuilders]_vars

NextBranch == SetContext \/ PatchMemory \/ Call_arm_branch \/ Return
SpecBranch == Init /\ [][NextBranch]_vars

NextMux == SetContext \/ PatchMemory \/ Call_arm_mux \/ Return
SpecMux == Init /\ [][NextMux]_vars

NextDispatch == SetContext \/ PatchMemory \/ Call_ARM_decoder_dispatch \/ Return
SpecDispatch == Init /\ [][NextDispatch]_vars

NextData == SetContext \/ PatchMemory \/ Call_arm_core_data \/ Return
SpecData == Init /\ [][NextData]_vars

NextLdstm == SetContext \/ PatchMemory \/ Call_arm_core_ldstm \/ Return
SpecLdstm == Init /\ [][NextLdstm]_vars

NextStatus == SetStatusContext \/ PatchMemory \/ Call_arm_core_status \/ Return
SpecStatus == Init /\ [][NextStatus]_vars

NextCoproc == SetContext \/ PatchMemory \/ Call_arm_coproc \/ Return
SpecCoproc == Init /\ [][NextCoproc]_vars

NextLocals ==
    SetContext \/ PatchMemory \/ Call_unpaired \/ Call_arm_vfp_ldst_ext
    \/ Return
SpecLocals == Init /\ [][NextLocals]_vars

NextElem == SetContext \/ PatchMemory \/ Call_arm_vfp_ldst_elem \/ Return
SpecElem == Init /\ [][NextElem]_vars

\* the handlers with a shifter
NextShift ==
    SetContext \/ PatchMemory \/ Call_arm_core_shift \/ Call_arm_core_ldst
    \/ Return
SpecShift == Init /\ [][NextShift]_vars

\* the exception instructions, called on snapshots of every mode
NextExc == SetExcContext \/ PatchMemory \/ Call_arm_core_exc \/ Return
SpecExc == Init /\ [][NextExc]_vars

\* the single-register loads and stores, plain and exclusive
NextStore ==
    SetContext \/ PatchMemory \/ Call_arm_core_ldst \/ Call_arm_core_ldstrex
        \/ Return
SpecStore == Init /\ [][NextStore]_vars

(***************************************************************************)
(* Properties of the dispatcher                                            *)
(***************************************************************************)
AfterCall(h) == pc = "returned" /\ handler = h

Matching(w) ==
    {i \in 1..Len(ARM_decode_table) : entry_matches(ARM_decode_table, i, w)}

LowestMatch(w) == CHOOSE i \in Matching(w) : \A j \in Matching(w) : i <= j

\* C1: the dispatcher returns the result of the decoder of the lowest table
\* index whose (instr & mask) == data, with that entry's extra; that entry is
\* the last one compared and the only one invoked, also when later entries
\* match as well.
C1_FirstMatchWins ==
    (AfterCall("ARM_decoder_dispatch") /\ Matching(instr) # {}) =>
        LET i == LowestMatch(instr)
        IN  /\ invoked = <<i>>
            /\ compared = i
            /\ \E ub \in UBChoices :
                  retval = call_decoder(ARM_decode_table[i].decoder,
                                        rpi2_reg_context, instr,
                                        ARM_decode_table[i].extra, ub)

\* a dispatched word that two entries match, answered by the first of them
C1_Witness ==
    /\ AfterCall("ARM_decoder_dispatch")
    /\ Cardinality(Matching(instr)) >= 2
    /\ invoked = <<LowestMatch(instr)>>
    /\ retval.state # "UNDEF"

\* C2: a word that no table entry matches invokes no decoder and is UNDEFINED.
C2_NoMatchUndefined ==
    (AfterCall("ARM_decoder_dispatch") /\ Matching(instr) = {}) =>
        /\ invoked = << >>
        /\ compared = Len(ARM_decode_table)
        /\ retval = set_undef_addr

C2_Witness ==
    /\ AfterCall("ARM_decoder_dispatch")
    /\ instr \in UnmatchedWords
    /\ Matching(instr) = {}
    /\ retval.state = "UNDEF"

C3_CondFalseIsLinear ==
    (AfterCall("arm_mux") /\ ~will_branch(rpi2_reg_context, instr)) =>
        retval = set_addr_lin

\* C10: MOV PC, Rm (sub-type arm_mux_lsl_i_mov_pc, shift amount 0, S clear,
\* condition holding) jumps to the value v of Rm: THUMB at v with bit 0
\* cleared when bit 0 is set, ARM at v when bits 1:0 are 00, not
\* UNPREDICTABLE.
C10_MovPcJumpsToRm ==
    (/\ AfterCall("arm_mux")
     /\ extra = "arm_mux_lsl_i_mov_pc"
     /\ bitrng(instr, 11, 7) = 0
     /\ bit(instr, 20) = 0
     /\ will_branch(rpi2_reg_context, instr)) =>
        LET v == RegPc8(rpi2_reg_context, instr.lo % 16)
        IN  /\ (v.lo % 2 = 1) =>
                  retval = [address |-> W(v.hi, v.lo - 1), state |-> "THUMB",
                            unpred |-> FALSE]
            /\ (v.lo % 4 = 0) =>
                  retval = [address |-> v, state |-> "ARM", unpred |-> FALSE]

(***************************************************************************)
(* Properties of the result builders                                       *)
(***************************************************************************)
\* C6: the UNPREDICTABLE overlay keeps the address and the state tag of the
\* outcome it is applied to: ARM at A, THUMB at A and the linear sentinel.
C6_OverlayKeepsAddressAndState ==
    AfterCall("set_unpred_addr") =>
        /\ retval.unpred
        /\ (extra = "set_arm_addr") =>
              (retval.address = instr /\ retval.state = "ARM")
        /\ (extra = "set_thumb_addr") =>
              (retval.address = instr /\ retval.state = "THUMB")
        /\ (extra = "set_addr_lin") =>
              (retval.address = W(Half - 1, Half - 1)
                 /\ retval.state = "ARM")

\* the overlay applied to a Thumb outcome at 0x1001
C6_Witness ==
    /\ AfterCall("set_unpred_addr")
    /\ extra = "set_thumb_addr"
    /\ instr = W(0, 4097)
    /\ retval = [address |-> W(0, 4097), state |-> "THUMB", unpred |-> TRUE]

(***************************************************************************)
(* Properties of arm_branch                                                *)
(***************************************************************************)
\* the 24-bit offset field as a signed number of bytes
BranchOffset(w) ==
    IF (w.hi % 256) >= 128
    THEN (((w.hi % 256) * Half) + w.lo - (256 * Half)) * 4
    ELSE (((w.hi % 256) * Half) + w.lo) * 4

\* w + k modulo 2^32 for an integer k, by half-words
PlusInt(w, k) ==
    W((w.hi + ((w.lo + k - ((w.lo + k) % Half)) \div Half)) % Half,
      (w.lo + k) % Half)

\* C7: B and BL whose condition holds go to
\* (r15 + 8 + (sign-extended imm24 << 2)) mod 2^32 in state ARM, not
\* UNPREDICTABLE.
C7_BranchLabelTarget ==
    (/\ AfterCall("arm_branch")
     /\ extra \in {"arm_bra_b_lbl", "arm_bra_bl_lbl"}
     /\ will_branch(rpi2_reg_context, instr)) =>
        retval = [address |-> PlusInt(Reg(rpi2_reg_context, 15),
                                      8 + BranchOffset(instr)),
                  state |-> "ARM", unpred |-> FALSE]

\* B with imm24 = 1 at r15 = 0x8000 goes to 0x800c
C7_Witness ==
    /\ AfterCall("arm_branch")
    /\ extra = "arm_bra_b_lbl"
    /\ instr = W(59904, 1)
    /\ Reg(rpi2_reg_context, 15) = W(0, 32768)
    /\ retval = [address |-> W(0, 32780), state |-> "ARM", unpred |-> FALSE]

\* C8: BX, BLX (register) and BXJ whose condition holds, v being the value of
\* the indexed register: bit 0 set gives THUMB at v with bit 0 cleared; else
\* bit 1 clear gives ARM at v with bits 1:0 cleared; else the linear sentinel
\* flagged UNPREDICTABLE; index register 15 is always flagged UNPREDICTABLE.
C8_BranchRegisterTarget ==
    (/\ AfterCall("arm_branch")
     /\ extra \in {"arm_bra_bx_r", "arm_bra_blx_r", "arm_bra_bxj_r"}
     /\ will_branch(rpi2_reg_context, instr)) =>
        LET v == Reg(rpi2_reg_context, instr.lo % 16)
        IN  /\ (v.lo % 2 = 1) =>
                  (retval.state = "THUMB"
                     /\ retval.address = W(v.hi, v.lo - 1))
            /\ (v.lo % 4 = 0) =>
                  (retval.state = "ARM" /\ retval.address = v)
            /\ (v.lo % 4 = 2) =>
                  (retval.state = "ARM"
                     /\ retval.address = W(Half - 1, Half - 1)
                     /\ retval.unpred)
            /\ (instr.lo % 16 = 15) => retval.unpred

\* BLX through a register that holds 0x1002: linear and UNPREDICTABLE
C8_Witness ==
    /\ AfterCall("arm_branch")
    /\ extra = "arm_bra_blx_r"
    /\ will_branch(rpi2_reg_context, instr)
    /\ Reg(rpi2_reg_context, instr.lo % 16) = W(0, 4098)
    /\ retval = [address |-> W(Half - 1, Half - 1), state |-> "ARM",
                 unpred |-> TRUE]

\* C9: when the condition does not hold arm_branch returns the linear
\* sentinel, not UNPREDICTABLE, for every sub-type and register content.
C9_BranchCondFalseIsLinear ==
    (AfterCall("arm_branch") /\ ~will_branch(rpi2_reg_context, instr)) =>
        retval = [address |-> W(Half - 1, Half - 1), state |-> "ARM",
                  unpred |-> FALSE]

\* BXNE pc under Z = 1: linear, although the register is the PC
C9_Witness ==
    /\ AfterCall("arm_branch")
    /\ extra = "arm_bra_bx_r"
    /\ instr.lo % 16 = 15
    /\ ~will_branch(rpi2_reg_context, instr)
    /\ retval.address = W(Half - 1, Half - 1)
    /\ ~retval.unpred

(***************************************************************************)
(* Properties of the data-processing handlers                              *)
(***************************************************************************)
\* the destination of the instruction is the PC: Rd in bits 19-16 for the
\* multiplies and divides, RdHi or RdLo for the long multiplies, Rd in
\* bits 15-12 for the others
DestIsPc(h, i) ==
    CASE h \in {"arm_core_data_mac", "arm_core_data_div"} ->
            bitrng(i, 19, 16) = 15
      [] h = "arm_core_data_macd" ->
            bitrng(i, 19, 16) = 15 \/ bitrng(i, 15, 12) = 15
      [] OTHER -> bitrng(i, 15, 12) = 15

\* C4: a data-processing, multiply, divide, saturating, pack/extend or
\* parallel-arithmetic instruction whose destination register (for the long
\* multiplies: neither RdHi nor RdLo) is not the PC decodes to the linear
\* sentinel, state ARM and address 0xFFFFFFFF, never to a computed address.
C4_RdNotPcIsLinear ==
    (pc = "returned" /\ handler \in DataHandlers /\ ~DestIsPc(handler, instr))
        => (retval.state = "ARM" /\ retval.address = LIN_ADDR)

\* MLA r0, r2, r1, pc: the accumulator is the PC, the destination is not
C4_Witness ==
    /\ pc = "returned"
    /\ handler = "arm_core_data_mac"
    /\ extra = "arm_cmac_mla"
    /\ bitrng(instr, 19, 16) # 15
    /\ bitrng(instr, 15, 12) = 15
    /\ retval = set_addr_lin

(***************************************************************************)
(* Properties of the divide handler                                        *)
(***************************************************************************)
\* the divisor of SDIV and UDIV: the register of bits 11-8
DivisorIsZero ==
    IsZeroW(RegPc8(rpi2_reg_context, bitrng(instr, 11, 8)))

\* C11: SDIV and UDIV with Rd = PC and a divisor register that holds 0
\* decode to address 0, state ARM, flagged UNPREDICTABLE.
C11_DivByZeroIsZeroUnpred ==
    (/\ pc = "returned"
     /\ handler = "arm_core_data_div"
     /\ bitrng(instr, 19, 16) = 15
     /\ DivisorIsZero)
        => (/\ retval.address = W(0, 0)
            /\ retval.state = "ARM"
            /\ retval.unpred)

(***************************************************************************)
(* Properties of arm_core_ldstm                                            *)
(***************************************************************************)
\* a load or store multiple with write-back whose base register is the PC
LdstmWritebackPc ==
    /\ pc = "returned"
    /\ handler = "arm_core_ldstm"
    /\ extra \notin {"arm_cldstm_pop_r", "arm_cldstm_push_r"}
    /\ bitrng(instr, 19, 16) = 15
    /\ bit(instr, 21) = 1

\* the number of registers in the list
ListSize == Cardinality({k \in 0..15 : bit(instr, k) = 1})

\* r15 + 4n for the increment forms, r15 - 4n for the decrement forms, as
\* an ARM address flagged UNPREDICTABLE
WrittenBackBase ==
    [address |-> PlusInt(Reg(rpi2_reg_context, 15),
                         IF bit(instr, 23) = 1 THEN 4 * ListSize
                         ELSE -(4 * ListSize)),
     state |-> "ARM", unpred |-> TRUE]

\* C12 as stated: LDM / STM with write-back and base register 15 decode to
\* the written-back base, r15 + 4n or r15 - 4n, an ARM address flagged
\* UNPREDICTABLE.
C12_WritebackPcAnyMode == LdstmWritebackPc => retval = WrittenBackBase

\* the forms with bit 22 set (user registers, exception return) in Hyp mode
LdstmHypUndefined ==
    bit(instr, 22) = 1 /\ bitrng(rpi2_reg_context.cpsr, 4, 0) = 26

\* C12, amended: LDM / STM with write-back and base register 15 decode to
\* the written-back base as an ARM address flagged UNPREDICTABLE, except
\* for the forms with bit 22 set in Hyp mode, which are UNDEFINED.
C12_WritebackPc ==
    (LdstmWritebackPc /\ ~LdstmHypUndefined) => retval = WrittenBackBase

\* LDMIA pc!, {r0-r2}: the new base is r15 + 12
C12_Witness ==
    /\ LdstmWritebackPc
    /\ bitrng(instr, 24, 20) = 11
    /\ ListSize = 3
    /\ retval = [address |-> PlusInt(Reg(rpi2_reg_context, 15), 12),
                 state |-> "ARM", unpred |-> TRUE]

(***************************************************************************)
(* Properties of arm_core_status                                           *)
(***************************************************************************)
\* C13: every MSR, MRS (banked forms included) and CPS, in every mode and
\* security state and for every register field, decodes to the linear
\* sentinel, possibly flagged UNPREDICTABLE: never to a computed address,
\* never to UNDEFINED.
C13_StatusIsLinear ==
    (pc = "returned" /\ handler = "arm_core_status")
        => (retval.state = "ARM" /\ retval.address = LIN_ADDR)

(***************************************************************************)
(* Properties of arm_coproc                                                *)
(***************************************************************************)
\* C14: a coprocessor instruction for coprocessor 8, 9, 12 or 13 is
\* UNDEFINED, whatever its sub-type; for every other coprocessor number the
\* outcome is UNDEFINED or the linear sentinel, never a computed address.
C14_ReservedCoprocUndefined ==
    (pc = "returned" /\ handler = "arm_coproc") =>
        /\ bitrng(instr, 11, 8) \in {8, 9, 12, 13} => retval = set_undef_addr
        /\ \/ retval.state = "UNDEF"
           \/ (retval.state = "ARM" /\ retval.address = LIN_ADDR)

\* MRC p9: the sub-type alone would give the linear sentinel
C14_Witness ==
    /\ pc = "returned"
    /\ handler = "arm_coproc"
    /\ extra = "arm_cop_mrc"
    /\ bitrng(instr, 11, 8) = 9
    /\ retval = set_undef_addr

(***************************************************************************)
(* Exception return by a data-processing instruction                       *)
(***************************************************************************)
ExceptionReturnToPc ==
    /\ pc = "returned"
    /\ \/ handler = "arm_core_data_bit" /\ extra \in ARM_RET_BIT
       \/ handler = "arm_core_data_std_r" /\ extra \in ARM_RET_R
       \/ handler = "arm_core_data_std_i" /\ extra \in ARM_RET_IMM
    /\ bitrng(instr, 15, 12) = 15
    /\ bit(instr, 20) = 1

\* C15: a data-processing instruction with Rd = PC and S set is UNDEFINED
\* in Hyp mode, gives the SVC vector 0x8 flagged UNPREDICTABLE in User and
\* System mode, and in every other mode gives a computed address with state
\* THUMB when the T bit of SPSR is set and ARM when it is clear, the same in
\* arm_core_data_bit, arm_core_data_std_r and arm_core_data_std_i.
C15_ExceptionReturnByMode ==
    ExceptionReturnToPc =>
        CASE bitrng(rpi2_reg_context.cpsr, 4, 0) = 26 ->
                retval = set_undef_addr
          [] bitrng(rpi2_reg_context.cpsr, 4, 0) \in {16, 31} ->
                retval = set_unpred_addr(set_arm_addr(W(0, 8)))
          [] OTHER ->
                retval.state =
                    IF bit(rpi2_reg_context.spsr, 5) = 1 THEN "THUMB"
                    ELSE "ARM"

C17_ElemLinearUnlessPcWriteback ==
    (pc = "returned" /\ handler = "arm_vfp_ldst_elem") =>
        /\ (vfp_elem_und(instr, extra) = 0 /\ bitrng(instr, 19, 16) # 15) =>
                retval = set_addr_lin
        /\ (retval.state # "UNDEF" /\ retval.address # LIN_ADDR) =>
                (bitrng(instr, 19, 16) = 15 /\ bitrng(instr, 3, 0) # 15)

(***************************************************************************)
(* The operation of the data-processing handlers                           *)
(***************************************************************************)
\* the result of the operation by the architecture, modulo 2^32
ArchAlu(op, a, b, c) ==
    CASE op = "add" -> AddW(a, b)
      [] op = "sub" -> SubW(a, b)
      [] op = "rsb" -> SubW(b, a)
      [] op = "adc" -> AddW(AddW(a, b), W(0, c))
      [] op = "sbc" -> AddW(AddW(a, NotW(b)), W(0, c))
      [] op = "rsc" -> AddW(AddW(NotW(a), b), W(0, c))
      [] op = "and" -> AndW(a, b)
      [] op = "orr" -> OrW(a, b)
      [] op = "eor" -> XorW(a, b)
      [] op = "bic" -> AndW(a, NotW(b))
      [] op = "mvn" -> NotW(b)
      [] OTHER -> b

\* the operation of the returned call
ReturnedOp ==
    CASE handler = "arm_core_data_std_r" -> std_r_op(extra)
      [] handler = "arm_core_data_std_sh" -> std_sh_op(extra)
      [] handler = "arm_core_data_std_i" -> std_i_op(extra)
      [] OTHER -> "none"

\* the final operand2 of the returned call, as the handler made it
ReturnedOperand2 ==
    CASE handler = "arm_core_data_std_r" ->
            std_r_operand2(bitrng(instr, 6, 5), bitrng(instr, 11, 7),
                           RegPc8(rpi2_reg_context, bitrng(instr, 3, 0)),
                           bit(rpi2_reg_context.cpsr, 29))
      [] handler = "arm_core_data_std_sh" ->
            std_sh_operand2(bitrng(instr, 6, 5),
                RegPc8(rpi2_reg_context, bitrng(instr, 11, 8)).lo % 32,
                RegPc8(rpi2_reg_context, bitrng(instr, 3, 0)))
      [] OTHER ->
            std_i_operand2(bitrng(instr, 7, 0),
                           (bitrng(instr, 11, 8) * 2) % 32)

\* a call whose returned address is the candidate address itself
CandidateReturned ==
    /\ pc = "returned"
    /\ handler \in {"arm_core_data_std_r", "arm_core_data_std_sh",
                    "arm_core_data_std_i"}
    /\ bitrng(instr, 15, 12) = 15
    /\ extra \notin ARM_RET_R \cup ARM_RET_IMM
    /\ ReturnedOp \notin {"none", "adr_lbla", "adr_lblb"}

\* C18: in arm_core_data_std_r, arm_core_data_std_sh and
\* arm_core_data_std_i with Rd = PC the candidate address is the result the
\* architecture gives for the operation on the value a of Rn, the final
\* operand2 b and the carry flag: ADD a+b, SUB a-b, RSB b-a, ADC a+b+C,
\* SBC a+NOT(b)+C, RSC NOT(a)+b+C, AND, ORR a OR b, EOR, BIC a AND NOT(b),
\* MVN NOT(b), MOV b.
C18_CandidateIsAluResult ==
    CandidateReturned =>
        retval.address =
            ArchAlu(ReturnedOp,
                    RegPc8(rpi2_reg_context, bitrng(instr, 19, 16)),
                    ReturnedOperand2, bit(rpi2_reg_context.cpsr, 29))

(***************************************************************************)
(* The shifter of arm_core_data_bit, arm_core_data_std_r,                  *)
(* arm_core_data_std_sh and arm_core_ldst                                  *)
(***************************************************************************)
\* a returned call whose address shows the operand shifted by an immediate
ImmShiftReturned ==
    /\ pc = "returned"
    /\ \/ /\ handler = "arm_core_data_bit"
          /\ extra \in ARM_RET_BIT
          /\ bit(instr, 20) = 0
          /\ bitrng(instr, 15, 12) = 15
       \/ /\ handler = "arm_core_data_std_r"
          /\ extra = "arm_cdata_mvn_r"
          /\ bitrng(instr, 15, 12) = 15
       \/ /\ handler = "arm_core_ldst"
          /\ bit(instr, 25) = 1
          /\ bit(instr, 24) = 0 /\ bit(instr, 21) = 0
          /\ bitrng(instr, 19, 16) = 15

\* a returned call whose address shows the operand shifted by a register
RegShiftReturned ==
    /\ pc = "returned"
    /\ \/ handler = "arm_core_data_bit" /\ extra \in ARM_CDATA_BIT_R
       \/ handler = "arm_core_data_std_sh" /\ extra = "arm_cdata_mvn_rshr"
    /\ bitrng(instr, 15, 12) = 15

\* the register that is shifted, as the handler reads it
ShiftSource ==
    IF handler = "arm_core_ldst"
    THEN Reg(rpi2_reg_context, bitrng(instr, 3, 0))
    ELSE RegPc8(rpi2_reg_context, bitrng(instr, 3, 0))

\* the address the call returns when the shifted operand is v
ShiftShown(v) ==
    CASE handler = "arm_core_data_bit" -> v
      [] handler = "arm_core_ldst" ->
            IF bit(instr, 23) = 1 THEN AddW(Reg(rpi2_reg_context, 15), v)
            ELSE SubW(Reg(rpi2_reg_context, 15), v)
      [] OTHER -> NotW(v)

\* C19: a rotate right of x by n, 1 <= n <= 31, gives the bitwise merge
\* (x >> n) OR (x << (32 - n)): ROR by immediate and by register in
\* arm_core_data_bit, the operand2 shifter of arm_core_data_std_r and
\* arm_core_data_std_sh, the offset shifter of arm_core_ldst.
C19_RotateIsBitwiseMerge ==
    /\ (ImmShiftReturned /\ bitrng(instr, 6, 5) = 3
        /\ bitrng(instr, 11, 7) # 0) =>
            retval.address =
                ShiftShown(RorW(ShiftSource, bitrng(instr, 11, 7)))
    /\ (RegShiftReturned /\ bitrng(instr, 6, 5) = 3
        /\ RegPc8(rpi2_reg_context, bitrng(instr, 11, 8)).lo % 32 # 0) =>
            retval.address =
                ShiftShown(RorW(ShiftSource,
                    RegPc8(rpi2_reg_context, bitrng(instr, 11, 8)).lo % 32))

\* the operand shifted by an amount field of 0, by the architecture
ArchShiftZero(ty, x, c) ==
    CASE ty = 0 -> x
      [] ty = 1 -> W(0, 0)
      [] ty = 2 -> IF bit(x, 31) = 1 THEN W(Half - 1, Half - 1) ELSE W(0, 0)
      [] OTHER -> OrW(ShrW(x, 1), W(c * 32768, 0))

\* C20: an immediate shift with amount field 0 follows the rule of the
\* encoding in arm_core_data_bit, arm_core_data_std_r and arm_core_ldst:
\* LSL #0 leaves the operand unchanged, LSR gives 0 (LSR #32), ASR gives the
\* sign fill (ASR #32), ROR is RRX with the carry flag in bit 31.
C20_ZeroAmountFollowsEncoding ==
    (ImmShiftReturned /\ bitrng(instr, 11, 7) = 0) =>
        retval.address =
            ShiftShown(ArchShiftZero(bitrng(instr, 6, 5), ShiftSource,
                                     bit(rpi2_reg_context.cpsr, 29)))

(***************************************************************************)
(* The operands of arm_core_data_std_i                                     *)
(***************************************************************************)
\* C21: in arm_core_data_std_i with Rd = PC, for every value of the rotate
\* field, operand2 is the 8-bit immediate rotated right by twice the field
\* and the first operand of the operation is the value of Rn in the
\* snapshot (plus 8 when Rn is the PC): making operand2 does not change it.
C21_ImmediateOperands ==
    (CandidateReturned /\ handler = "arm_core_data_std_i") =>
        retval.address =
            std_alu(ReturnedOp,
                    RegPc8(rpi2_reg_context, bitrng(instr, 19, 16)),
                    RorW(WordOf(bitrng(instr, 7, 0)),
                         (bitrng(instr, 11, 8) * 2) % 32),
                    bit(rpi2_reg_context.cpsr, 29))

(***************************************************************************)
(* The 64-bit result of arm_core_data_macd                                 *)
(***************************************************************************)
\* the full-width product of (Rn) and (Rm), signed or unsigned
LongProduct(e, n, m) ==
    IF e \in {"arm_cmac_smull", "arm_cmac_smlal"} THEN SMul64(n, m)
    ELSE UMul64(n, m)

\* the 64-bit result: the product, plus RdHi:RdLo in the accumulating forms
LongResult(e, n, m, hi, lo) ==
    IF e \in {"arm_cmac_smlal", "arm_cmac_umlal"}
    THEN Add64(LongProduct(e, n, m), D(hi, lo))
    ELSE LongProduct(e, n, m)

\* the result of the returned call
ReturnedLongResult ==
    LongResult(extra, RegPc8(rpi2_reg_context, bitrng(instr, 3, 0)),
               RegPc8(rpi2_reg_context, bitrng(instr, 11, 8)),
               Reg(rpi2_reg_context, bitrng(instr, 19, 16)),
               Reg(rpi2_reg_context, bitrng(instr, 15, 12)))

\* C22: a 64-bit-result multiply with RdHi or RdLo = PC returns, flagged
\* UNPREDICTABLE, the half of the full 64-bit result that lands in the PC:
\* bits 63-32 when RdHi is the PC, else bits 31-0; the result is the
\* full-width product of (Rn) and (Rm), signed or unsigned, plus RdHi:RdLo
\* in the accumulating forms.  Stated for SMULL, UMULL, SMLAL and UMLAL.
C22_LongMultiplyHalf ==
    (pc = "returned" /\ handler = "arm_core_data_macd"
     /\ extra \in {"arm_cmac_smull", "arm_cmac_umull", "arm_cmac_smlal",
                   "arm_cmac_umlal"}
     /\ 15 \in {bitrng(instr, 19, 16), bitrng(instr, 15, 12)}) =>
        retval = set_unpred_addr(set_arm_addr(
                    IF bitrng(instr, 19, 16) = 15 THEN ReturnedLongResult.h
                    ELSE ReturnedLongResult.l))

(***************************************************************************)
(* Loads into the PC by arm_core_ldstm                                     *)
(***************************************************************************)
\* C23: POP {pc} (arm_cldstm_pop_r with Rt = 15) gives the word of memory at
\* the SP as the candidate address and takes the state from its low bits as
\* the other loads into the PC do: bit 0 set gives THUMB, bits 1:0 = 00
\* gives ARM, any other pattern gives THUMB flagged UNPREDICTABLE.
C23_PopPcStateFromLowBits ==
    (pc = "returned" /\ handler = "arm_core_ldstm"
     /\ extra = "arm_cldstm_pop_r" /\ bitrng(instr, 15, 12) = 15
     /\ Reg(rpi2_reg_context, 13) \in DOMAIN memory) =>
        retval = low_bits_jump(memory[Reg(rpi2_reg_context, 13)])

\* LDM with the PC in the list and a base register other than the PC
LdmPcReturned ==
    /\ pc = "returned"
    /\ handler = "arm_core_ldstm"
    /\ extra = "arm_cldstm_ldm"
    /\ bit(instr, 20) = 1
    /\ bit(instr, 15) = 1
    /\ bitrng(instr, 19, 16) # 15

\* the slot the architecture assigns to the PC, the highest address of the
\* block: Rn + 4 * (n - 1) for IA, Rn + 4 * n for IB, Rn for DA, Rn - 4 for DB
ArchPcSlot(base, n) ==
    CASE bitrng(instr, 24, 23) = 1 -> AddW(base, W(0, 4 * (n - 1)))
      [] bitrng(instr, 24, 23) = 3 -> AddW(base, W(0, 4 * n))
      [] bitrng(instr, 24, 23) = 0 -> base
      [] OTHER -> SubW(base, W(0, 4))

ReturnedPcSlot ==
    ArchPcSlot(Reg(rpi2_reg_context, bitrng(instr, 19, 16)), ListSize)

\* C24: LDM with the PC in the list, Rn not the PC and n registers in the
\* list takes the candidate address from the slot of the PC, the highest
\* address of the block: Rn + 4 * (n - 1) for increment-after, Rn + 4 * n
\* for increment-before, Rn for decrement-after, Rn - 4 for
\* decrement-before.  The two low bits may be cleared by the choice of state.
C24_LdmPcSlot ==
    (LdmPcReturned /\ retval.state # "UNDEF"
     /\ ReturnedPcSlot \in DOMAIN memory) =>
        AndW(retval.address, MaskFrom(2))
            = AndW(memory[ReturnedPcSlot], MaskFrom(2))

\* the word the handler loads into the PC
LoadedPcWord ==
    memory[ldstm_pc_slot(instr, Reg(rpi2_reg_context, bitrng(instr, 19, 16)),
                         ListSize)]

\* C25: for LDM with the PC in the list the T bit of SPSR decides the state
\* only when the instruction restores the saved mode (bit 22 set); with bit
\* 22 clear the state comes from the low bits of the loaded word alone (bit
\* 0 set gives THUMB, bits 1:0 = 00 gives ARM) and SPSR is not looked at.
C25_SpsrOnlyOnExceptionReturn ==
    (LdmPcReturned /\ bit(instr, 22) = 0
     /\ ldstm_pc_slot(instr, Reg(rpi2_reg_context, bitrng(instr, 19, 16)),
                      ListSize) \in DOMAIN memory) =>
        retval.state = low_bits_jump(LoadedPcWord).state

RfeReturned ==
    /\ pc = "returned"
    /\ handler = "arm_core_exc"
    /\ extra = "arm_exc_rfe"

\* address = if increment then R[n] else R[n]-8; plus 4 if P == U
ArchRfeSlot(base) ==
    CASE bitrng(instr, 24, 23) = 0 -> SubW(base, W(0, 4))
      [] bitrng(instr, 24, 23) = 1 -> base
      [] bitrng(instr, 24, 23) = 2 -> SubW(base, W(0, 8))
      [] OTHER -> AddW(base, W(0, 4))

ReturnedRfeSlot ==
    ArchRfeSlot(Reg(rpi2_reg_context, bitrng(instr, 19, 16)))

\* C26: outside Hyp mode RFE returns the word read from Rn-4 (decrement
\* after), Rn (increment after), Rn-8 (decrement before) or Rn+4 (increment
\* before); in Hyp mode RFE is UNDEFINED.
C26_RfeReturnAddress ==
    RfeReturned =>
        IF check_proc_mode(rpi2_reg_context, {26})
        THEN retval = set_undef_addr
        ELSE ReturnedRfeSlot \in DOMAIN memory =>
                retval.address = memory[ReturnedRfeSlot]

\* a store of arm_core_ldst or of arm_core_ldstrex whose base is not the PC
StoreReturned ==
    /\ pc = "returned"
    /\ handler \in {"arm_core_ldst", "arm_core_ldstrex"}
    /\ bit(instr, 20) = 0
    /\ bitrng(instr, 19, 16) # 15

\* C27: a store changes the PC only through base write-back: STR and STRB,
\* and the exclusive stores STREX, STREXB, STREXH and STREXD, with a base
\* other than r15 return the linear sentinel whatever the transferred or
\* the status register is, r15 included.
C27_StoresAreLinear ==
    StoreReturned =>
        (retval.address = LIN_ADDR /\ retval.state = "ARM")

WaitHintReturned ==
    /\ pc = "returned"
    /\ handler = "arm_mux"
    /\ extra = "arm_mux_wfe_wfi"

\* C28: arm_mux_wfe_wfi treats WFE (bits 7-0 = 2) and WFI (bits 7-0 = 3)
\* alike: when the condition holds both return the linear sentinel, and
\* every other hint value is UNDEFINED.
C28_WfeAndWfiLinear ==
    (WaitHintReturned /\ will_branch(rpi2_reg_context, instr)) =>
        retval = LinIf(bitrng(instr, 7, 0) \in {2, 3})

\* LDR pc, [pc, #+/-imm12]: immediate offset, P = 1, W = 0, a word load
LiteralLoadReturned ==
    /\ pc = "returned"
    /\ handler = "arm_core_ldst"
    /\ bit(instr, 25) = 0
    /\ bit(instr, 24) = 1
    /\ bitrng(instr, 22, 20) = 1
    /\ bitrng(instr, 19, 16) = 15
    /\ bitrng(instr, 15, 12) = 15

\* the address of the literal: the PC read as r15 + 8, plus or minus imm12
LiteralAddress ==
    IF bit(instr, 23) = 1
    THEN AddW(RegPc8(rpi2_reg_context, 15), WordOf(bitrng(instr, 11, 0)))
    ELSE SubW(RegPc8(rpi2_reg_context, 15), WordOf(bitrng(instr, 11, 0)))

\* C29: for LDR PC, [PC, #+/-imm] with P = 1 and W = 0 arm_core_ldst reads
\* the word at r15 + 8 +/- imm and returns it as the next address.
C29_LiteralLoadReadsPcPlus8 ==
    (LiteralLoadReturned /\ LiteralAddress \in DOMAIN memory) =>
        AndW(retval.address, MaskFrom(2))
            = AndW(memory[LiteralAddress], MaskFrom(2))

CpsReturned ==
    /\ pc = "returned"
    /\ handler = "arm_core_status"
    /\ extra = "arm_cstat_cps"

\* the encodings of CPS that the architecture leaves UNPREDICTABLE
CpsUnpredictableEncoding ==
    \/ (bitrng(instr, 4, 0) # 0 /\ bit(instr, 17) = 0)
    \/ (bitrng(instr, 19, 18) = 0 /\ bit(instr, 17) = 0)
    \/ bitrng(instr, 19, 18) = 1
    \/ (bit(instr, 19) = 1 /\ bitrng(instr, 8, 6) = 0)
    \/ (bit(instr, 19) = 0 /\ bitrng(instr, 8, 6) # 0)

\* C30: in a mode other than User, CPS returns the linear sentinel flagged
\* UNPREDICTABLE whenever (mode field != 0 and M == 0), or (imod == 00 and
\* M == 0), or imod == 01, or (imod<1> == 1 and A:I:F == 000), or
\* (imod<1> == 0 and A:I:F != 000); in User mode CPS is linear, not flagged.
C30_CpsUnpredictableEncodings ==
    CpsReturned =>
        IF check_proc_mode(rpi2_reg_context, {16})
        THEN retval = set_addr_lin
        ELSE CpsUnpredictableEncoding =>
                retval = set_unpred_addr(set_addr_lin)

====
